---- MODULE Spec2Model ----
(***************************************************************************)
(* State machine of the campus rumor verification contracts:               *)
(* IdentityRegistry, RumorRegistry, VotingSystem, VerificationController,  *)
(* CorrelationManager and AutomationKeeper.                                 *)
(*                                                                         *)
(* One action per external function.  A call that reverts leaves every     *)
(* contract variable as it was (EVM revert): it is a stuttering step.  For *)
(* each function an operator <name>Error gives the message of the first    *)
(* require that fails, "" when the call goes through.                      *)
(*                                                                         *)
(* Time is block.timestamp counted in hours: every duration of the code    *)
(* (1 hours, 1 days, 7 days, 5 days, 30 days) is a whole number of hours.  *)
(* Strings stored on chain (content hash, keywords, evidence hashes) are   *)
(* opaque to every function; of the evidence list only its length is read *)
(* and kept.  uint256/int256 arithmetic is checked (Solidity 0.8) and the  *)
(* values of the model stay far from 2^255, so no overflow is modelled.    *)
(*                                                                         *)
(* Access modifiers between the contracts (onlyOwner, onlyAuthorized) are  *)
(* modelled as passing for the contract-to-contract calls the deployment   *)
(* wires together, and the owner's direct calls are separate actions; this *)
(* admits every behaviour of every ownership configuration.                *)
(***************************************************************************)
EXTENDS Integers, Sequences, FiniteSets, TLC

(* ---------------------------- bounds ---------------------------------- *)
\* number of rumor ids the model creates
MaxRumors == 1
\* the largest evidence list submitted with a rumor
MaxEvidence == 25
\* weeks of block time after deployment, where time moves by weeks
MaxWeeks == 1
\* months (of five weeks) of block time after deployment, where time moves by months
MaxMonths == 1
\* cap on credibility scores set or added by the owner's direct calls
MaxScore == 70
\* the owner's direct addCredibility, removeCredibility and recordVote are taken
\* while the counters they increment are below this cap
MaxDirect == 2
\* number of rumor ids the model creates where correlations are added
MaxCorrRumors == 2
\* correlation boosts are applied to a rumor while its confidence is less than this
\* far from its initial confidence
MaxDrift == 15
\* number of rumor ids the model creates where one voter votes on all of them
MaxVoteRumors == 11
\* hours of block time after deployment, where time moves by hours
MaxHours == 1
\* number of rumor ids the model creates where posting limits are reached
MaxPosts == 4
\* days of block time after deployment, where time moves by days
MaxDays == 1
\* number of rumor ids the model creates where the keeper sweeps them
MaxSweepRumors == 3
\* number of rumor ids the model creates where the boost of rumor 1 is tallied
MaxTallyRumors == 3

(* ------------------------ program constants --------------------------- *)
HOUR == 1
DAY == 24
INITIAL_CREDIBILITY == 10
NEW_USER_VOTING_POWER == 2500
CREDIBLE_USER_VOTING_POWER == 10000
DISCREDITED_VOTING_POWER == 5000
CREDIBILITY_THRESHOLD == 30
DISCREDIT_DURATION == 30 * DAY
LOCK_DURATION == 7 * DAY
MAX_CONFIDENCE == 100
MIN_CONFIDENCE == -100
MAX_VOTES_PER_HOUR == 10
CORRELATION_VALIDITY_DAYS == 5
AUTHOR_REWARD_TRUE == 5
AUTHOR_PENALTY_FALSE == 10
VOTER_REWARD_CORRECT == 1
VOTER_PENALTY_WRONG_CONFIRM == 1
VOTER_REWARD_CORRECT_DISPUTE == 2
VOTER_PENALTY_WRONG_DISPUTE == 2

(* --------------------------- input sets -------------------------------- *)
\* wallets that call the contracts; "owner" is the deployer
Wallets == {"w1", "w2"}
Wallets3 == {"w1", "w2", "w3"}
\* email commitments handed out by the identity issuer
HMACs == {"h1", "h2"}
EvidenceCounts == {0, MaxEvidence}
\* scores the owner sets with updateCredibility
ScoreInputs == {0, 1, CREDIBILITY_THRESHOLD, MaxScore}
\* points of the owner's direct addCredibility / removeCredibility
PointInputs == {1, 20}
VoteTypes == {"CONFIRM", "DISPUTE"}
\* block.timestamp at deployment, past one lock duration as on any live chain
DeployTime == 8 * DAY

VARIABLES
    now,                \* block.timestamp, in hours
    students,           \* IdentityRegistry.students
    emailHMACUsed,      \* IdentityRegistry.emailHMACUsed, as the set of used commitments
    nextStudentID,      \* IdentityRegistry.nextStudentID
    rumors,             \* RumorRegistry.rumors
    tombstones,         \* RumorRegistry.tombstones
    nextRumorID,        \* RumorRegistry.nextRumorID
    votes,              \* VotingSystem.votes, votes[i] is the vote with voteID i
    hasVoted,           \* VotingSystem.hasVoted, as the set of <<rumorID, wallet>>
    verifiedRumors,     \* VerificationController.verifiedRumors, as a set
    verificationResult, \* VerificationController.verificationResult
    correlations,       \* CorrelationManager.correlations, keyed by <<rumorA, rumorB>>
    batchSize,          \* AutomationKeeper.batchSize
    performData         \* the list checkUpkeep returned last, held by the automation node

vars == <<now, students, emailHMACUsed, nextStudentID, rumors, tombstones, nextRumorID,
          votes, hasVoted, verifiedRumors, verificationResult, correlations,
          batchSize, performData>>

identityVars == <<students, emailHMACUsed, nextStudentID>>
rumorVars == <<rumors, tombstones, nextRumorID>>
votingVars == <<votes, hasVoted>>
verificationVars == <<verifiedRumors, verificationResult>>
keeperVars == <<batchSize, performData>>

(* ------------------------------ helpers -------------------------------- *)
Max(a, b) == IF a >= b THEN a ELSE b

\* Solidity's signed division truncates toward zero
SDiv(a, b) == IF a >= 0 THEN a \div b ELSE -((-a) \div b)

\* the value a mapping(address => Student) returns for an unset key
EmptyStudent ==
    [studentID |-> 0, emailHMAC |-> "", credibilityScore |-> 0, status |-> "NONE",
     votingPower |-> 0, registeredAt |-> 0, totalPosts |-> 0, totalVotes |-> 0,
     accuratePredictions |-> 0, inaccuratePredictions |-> 0, discreditedUntil |-> 0,
     postsToday |-> 0, lastPostDate |-> 0, votesThisHour |-> 0, lastVoteHour |-> 0]

\* the value a mapping(uint256 => Rumor) returns for an unset key
EmptyRumor ==
    [rumorID |-> 0, authorID |-> 0, authorWallet |-> "", evidenceCount |-> 0,
     hasEvidence |-> FALSE, initialConfidence |-> 0, currentConfidence |-> 0,
     lockedConfidence |-> 0, status |-> "ACTIVE", visible |-> FALSE, createdAt |-> 0,
     lockedAt |-> 0, totalConfirmVotes |-> 0, totalDisputeVotes |-> 0,
     weightedConfirmScore |-> 0, weightedDisputeScore |-> 0]

\* the value a mapping(uint256 => Tombstone) returns for an unset key
EmptyTombstone ==
    [originalRumorID |-> 0, finalConfidence |-> 0, voteCount |-> 0, deletedAt |-> 0,
     deletedBy |-> 0, trustRedistributed |-> FALSE]

(* ------------------------- IdentityRegistry ---------------------------- *)
getStudent(wallet) == students[wallet]

\* studentIDToWallet, then students: the record of an unknown id is empty
getStudentByID(studs, studentID) ==
    IF \E w \in DOMAIN studs : studs[w].studentID = studentID /\ studentID # 0
    THEN studs[CHOOSE w \in DOMAIN studs : studs[w].studentID = studentID]
    ELSE EmptyStudent

getVotingWeight(wallet) ==
    LET student == students[wallet] IN
    IF student.studentID = 0 THEN 0
    ELSE IF student.status = "BLOCKED" THEN 0
    ELSE IF /\ student.status = "DISCREDITED"
            /\ now > student.discreditedUntil
            /\ student.credibilityScore >= CREDIBILITY_THRESHOLD
         THEN CREDIBLE_USER_VOTING_POWER
    ELSE student.votingPower

\* canPost with <= in the place of < for a NEW_USER
canPostLoose(wallet) ==
    LET student == students[wallet]
        today == now \div DAY
        postsToday == IF student.lastPostDate < today THEN 0 ELSE student.postsToday
    IN  IF student.studentID = 0 THEN FALSE
        ELSE IF student.status = "BLOCKED" THEN FALSE
        ELSE IF student.status = "NEW_USER" THEN postsToday <= 3
        ELSE IF student.status = "DISCREDITED" THEN postsToday < 2
        ELSE TRUE

canPost(wallet) ==
    LET student == students[wallet]
        today == now \div DAY
        postsToday == IF student.lastPostDate < today THEN 0 ELSE student.postsToday
    IN  IF student.studentID = 0 THEN FALSE
        ELSE IF student.status = "BLOCKED" THEN FALSE
        ELSE IF student.status = "NEW_USER" THEN postsToday < 3
        ELSE IF student.status = "DISCREDITED" THEN postsToday < 2
        ELSE TRUE

\* _updateStatus with its first branch (score == 0) taken out
updateStatusNoBlock(student) ==
    LET oldStatus == student.status
        score == student.credibilityScore
    IN  IF score < CREDIBILITY_THRESHOLD
        THEN IF oldStatus # "NEW_USER" /\ oldStatus # "DISCREDITED"
             THEN [student EXCEPT !.status = "DISCREDITED",
                                  !.votingPower = DISCREDITED_VOTING_POWER,
                                  !.discreditedUntil = now + DISCREDIT_DURATION]
             ELSE student
        ELSE IF oldStatus = "NEW_USER"
        THEN [student EXCEPT !.status = "CREDIBLE_USER",
                             !.votingPower = CREDIBLE_USER_VOTING_POWER,
                             !.discreditedUntil = 0]
        ELSE student

\* the status and the fields _updateStatus writes, from the student as stored
\* updateStatus that leaves votingPower as it was when it discredits a student
updateStatusKeepPower(student) ==
    LET oldStatus == student.status
        score == student.credibilityScore
        s1 == IF score = 0
              THEN [student EXCEPT !.status = "BLOCKED", !.votingPower = 0]
              ELSE IF score < CREDIBILITY_THRESHOLD
              THEN IF oldStatus # "NEW_USER" /\ oldStatus # "DISCREDITED"
                   THEN [student EXCEPT !.status = "DISCREDITED",
                                        !.discreditedUntil = now + DISCREDIT_DURATION]
                   ELSE student
              ELSE IF \/ oldStatus = "NEW_USER"
                      \/ (oldStatus = "DISCREDITED" /\ now > student.discreditedUntil)
                   THEN [student EXCEPT !.status = "CREDIBLE_USER",
                                        !.votingPower = CREDIBLE_USER_VOTING_POWER,
                                        !.discreditedUntil = 0]
                   ELSE student
    IN  IF s1.status = "CREDIBLE_USER"
        THEN IF score >= 70 THEN [s1 EXCEPT !.votingPower = 15000]
             ELSE IF score >= 50 THEN [s1 EXCEPT !.votingPower = 12000]
             ELSE s1
        ELSE s1

\* updateStatus that lets a DISCREDITED student with a sufficient score back without
\* waiting for discreditedUntil
updateStatusIgnoringPeriod(student) ==
    LET oldStatus == student.status
        score == student.credibilityScore
        s1 == IF score = 0
              THEN [student EXCEPT !.status = "BLOCKED", !.votingPower = 0]
              ELSE IF score < CREDIBILITY_THRESHOLD
              THEN IF oldStatus # "NEW_USER" /\ oldStatus # "DISCREDITED"
                   THEN [student EXCEPT !.status = "DISCREDITED",
                                        !.votingPower = DISCREDITED_VOTING_POWER,
                                        !.discreditedUntil = now + DISCREDIT_DURATION]
                   ELSE student
              ELSE IF oldStatus = "NEW_USER" \/ oldStatus = "DISCREDITED"
                   THEN [student EXCEPT !.status = "CREDIBLE_USER",
                                        !.votingPower = CREDIBLE_USER_VOTING_POWER,
                                        !.discreditedUntil = 0]
                   ELSE student
    IN  IF s1.status = "CREDIBLE_USER"
        THEN IF score >= 70 THEN [s1 EXCEPT !.votingPower = 15000]
             ELSE IF score >= 50 THEN [s1 EXCEPT !.votingPower = 12000]
             ELSE s1
        ELSE s1

updateStatus(student) ==
    LET oldStatus == student.status
        score == student.credibilityScore
        s1 == IF score = 0
              THEN [student EXCEPT !.status = "BLOCKED", !.votingPower = 0]
              ELSE IF score < CREDIBILITY_THRESHOLD
              THEN IF oldStatus # "NEW_USER" /\ oldStatus # "DISCREDITED"
                   THEN [student EXCEPT !.status = "DISCREDITED",
                                        !.votingPower = DISCREDITED_VOTING_POWER,
                                        !.discreditedUntil = now + DISCREDIT_DURATION]
                   ELSE student
              ELSE IF \/ oldStatus = "NEW_USER"
                      \/ (oldStatus = "DISCREDITED" /\ now > student.discreditedUntil)
                   THEN [student EXCEPT !.status = "CREDIBLE_USER",
                                        !.votingPower = CREDIBLE_USER_VOTING_POWER,
                                        !.discreditedUntil = 0]
                   ELSE student
    IN  IF s1.status = "CREDIBLE_USER"
        THEN IF score >= 70 THEN [s1 EXCEPT !.votingPower = 15000]
             ELSE IF score >= 50 THEN [s1 EXCEPT !.votingPower = 12000]
             ELSE s1
        ELSE s1

\* addCredibility on the student map `studs` (the caller has passed onlyOwner)
addCredibility(studs, wallet, points) ==
    [studs EXCEPT ![wallet] =
        updateStatus([@ EXCEPT !.credibilityScore = @ + points,
                               !.accuratePredictions = @ + 1])]

\* removeCredibility on the student map `studs`: the score saturates at 0
removeCredibility(studs, wallet, points) ==
    [studs EXCEPT ![wallet] =
        updateStatus([@ EXCEPT !.credibilityScore = IF points >= @ THEN 0 ELSE @ - points,
                               !.inaccuratePredictions = @ + 1])]

incrementPostCount(studs, wallet) ==
    LET today == now \div DAY
        student == studs[wallet]
        reset == IF student.lastPostDate < today
                 THEN [student EXCEPT !.postsToday = 0, !.lastPostDate = today]
                 ELSE student
    IN  [studs EXCEPT ![wallet] = [reset EXCEPT !.totalPosts = @ + 1, !.postsToday = @ + 1]]

incrementVoteCount(studs, wallet) ==
    LET currentHour == now \div HOUR
        student == studs[wallet]
        reset == IF student.lastVoteHour < currentHour
                 THEN [student EXCEPT !.votesThisHour = 0, !.lastVoteHour = currentHour]
                 ELSE student
    IN  [studs EXCEPT ![wallet] = [reset EXCEPT !.totalVotes = @ + 1, !.votesThisHour = @ + 1]]

\* registerStudent without require(!emailHMACUsed[emailHMAC])
registerStudentErrorNoEmail(wallet, emailHMAC, validSignature) ==
    IF students[wallet].studentID # 0 THEN "Wallet already registered"
    ELSE IF ~validSignature THEN "Invalid signature"
    ELSE ""

\* the first require of registerStudent that fails, "" when none does
registerStudentError(wallet, emailHMAC, validSignature) ==
    IF students[wallet].studentID # 0 THEN "Wallet already registered"
    ELSE IF emailHMAC \in emailHMACUsed THEN "Email already registered"
    ELSE IF ~validSignature THEN "Invalid signature"
    ELSE ""

RegisterStudent(wallet, emailHMAC, validSignature) ==
    LET err == registerStudentError(wallet, emailHMAC, validSignature) IN
    /\ IF err = ""
       THEN /\ students' = [students EXCEPT ![wallet] =
                   [EmptyStudent EXCEPT !.studentID = nextStudentID,
                                        !.emailHMAC = emailHMAC,
                                        !.credibilityScore = INITIAL_CREDIBILITY,
                                        !.status = "NEW_USER",
                                        !.votingPower = NEW_USER_VOTING_POWER,
                                        !.registeredAt = now]]
            /\ nextStudentID' = nextStudentID + 1
            /\ emailHMACUsed' = emailHMACUsed \cup {emailHMAC}
       ELSE UNCHANGED identityVars
    /\ UNCHANGED <<now, keeperVars, rumorVars, votingVars, verificationVars, correlations>>

\* updateCredibility called by the owner
UpdateCredibility(wallet, newScore) ==
    LET err == IF students[wallet].studentID = 0 THEN "Student not registered" ELSE "" IN
    /\ IF err = ""
       THEN students' = [students EXCEPT ![wallet] =
                            updateStatus([@ EXCEPT !.credibilityScore = newScore])]
       ELSE UNCHANGED students
    /\ UNCHANGED <<now, keeperVars, emailHMACUsed, nextStudentID, rumorVars, votingVars,
                   verificationVars, correlations>>

\* addCredibility called by the owner
AddCredibility(wallet, points) ==
    LET err == IF students[wallet].studentID = 0 THEN "Student not registered" ELSE "" IN
    /\ students[wallet].credibilityScore + points <= MaxScore
    /\ students[wallet].accuratePredictions + students[wallet].inaccuratePredictions < MaxDirect
    /\ IF err = ""
       THEN students' = addCredibility(students, wallet, points)
       ELSE UNCHANGED students
    /\ UNCHANGED <<now, keeperVars, emailHMACUsed, nextStudentID, rumorVars, votingVars,
                   verificationVars, correlations>>

\* removeCredibility called by the owner
RemoveCredibility(wallet, points) ==
    LET err == IF students[wallet].studentID = 0 THEN "Student not registered" ELSE "" IN
    /\ students[wallet].accuratePredictions + students[wallet].inaccuratePredictions < MaxDirect
    /\ IF err = ""
       THEN students' = removeCredibility(students, wallet, points)
       ELSE UNCHANGED students
    /\ UNCHANGED <<now, keeperVars, emailHMACUsed, nextStudentID, rumorVars, votingVars,
                   verificationVars, correlations>>

(* --------------------------- RumorRegistry ----------------------------- *)
getRumor(rumorID) == IF rumorID \in DOMAIN rumors THEN rumors[rumorID] ELSE EmptyRumor

getTotalRumors == nextRumorID - 1

\* _calculateInitialConfidence with the evidence reduction stopped at 0
calculateInitialConfidenceCapped(status, hasEvidence, evidenceCount) ==
    LET evidenceReduction == IF hasEvidence THEN 5 * evidenceCount ELSE 0
        base == IF status = "NEW_USER" THEN -20
                ELSE IF status = "CREDIBLE_USER" THEN -10
                ELSE IF status = "DISCREDITED" THEN -30
                ELSE -15
    IN  IF status \in {"NEW_USER", "CREDIBLE_USER", "DISCREDITED"}
        THEN (IF base + evidenceReduction > 0 THEN 0 ELSE base + evidenceReduction)
        ELSE base

calculateInitialConfidence(status, hasEvidence, evidenceCount) ==
    LET evidenceReduction == IF hasEvidence THEN 5 * evidenceCount ELSE 0 IN
    IF status = "NEW_USER" THEN -20 + evidenceReduction
    ELSE IF status = "CREDIBLE_USER" THEN -10 + evidenceReduction
    ELSE IF status = "DISCREDITED" THEN -30 + evidenceReduction
    ELSE -15

clamp(c) ==
    IF c > MAX_CONFIDENCE THEN MAX_CONFIDENCE
    ELSE IF c < MIN_CONFIDENCE THEN MIN_CONFIDENCE
    ELSE c

\* _updateConfidence moving the confidence on from currentConfidence, where boosts
\* and bonuses live, instead of recomputing it from initialConfidence
updateConfidenceFromCurrent(rumor) ==
    LET voteScore == rumor.weightedConfirmScore - rumor.weightedDisputeScore
        newConfidence == rumor.currentConfidence + voteScore
    IN  IF now >= rumor.createdAt + LOCK_DURATION /\ rumor.status = "ACTIVE"
        THEN [rumor EXCEPT !.status = "LOCKED",
                           !.lockedConfidence = newConfidence,
                           !.lockedAt = now,
                           !.visible = FALSE,
                           !.currentConfidence = clamp(newConfidence)]
        ELSE [rumor EXCEPT !.currentConfidence = clamp(newConfidence)]

\* _updateConfidence on the rumor record
updateConfidence(rumor) ==
    LET voteScore == rumor.weightedConfirmScore - rumor.weightedDisputeScore
        newConfidence == rumor.initialConfidence + voteScore
    IN  IF now >= rumor.createdAt + LOCK_DURATION /\ rumor.status = "ACTIVE"
        THEN [rumor EXCEPT !.status = "LOCKED",
                           !.lockedConfidence = newConfidence,
                           !.lockedAt = now,
                           !.visible = FALSE,
                           !.currentConfidence = clamp(newConfidence)]
        ELSE IF rumor.status = "LOCKED"
        THEN [rumor EXCEPT !.currentConfidence =
                  clamp(SDiv(rumor.lockedConfidence * 95 + newConfidence * 5, 100))]
        ELSE [rumor EXCEPT !.currentConfidence = clamp(newConfidence)]

recordVoteError(rumorID) ==
    IF getRumor(rumorID).rumorID = 0 THEN "Rumor does not exist"
    ELSE IF getRumor(rumorID).status # "ACTIVE" THEN "Rumor not active"
    ELSE ""

\* recordVote on the rumor record, its requires passed
recordVote(rumor, isConfirm, weight) ==
    updateConfidence(
        IF isConfirm
        THEN [rumor EXCEPT !.totalConfirmVotes = @ + 1, !.weightedConfirmScore = @ + weight]
        ELSE [rumor EXCEPT !.totalDisputeVotes = @ + 1, !.weightedDisputeScore = @ + weight])

isEligibleForLock(rumorID) ==
    /\ getRumor(rumorID).status = "ACTIVE"
    /\ now >= getRumor(rumorID).createdAt + LOCK_DURATION

createRumorError(wallet) ==
    IF students[wallet].studentID = 0 THEN "Author not registered"
    ELSE IF students[wallet].status = "BLOCKED" THEN "Author is blocked"
    ELSE IF ~canPost(wallet) THEN "Posting limit reached"
    ELSE ""

CreateRumor(wallet, evidenceCount) ==
    LET err == createRumorError(wallet)
        author == students[wallet]
        initialConfidence ==
            calculateInitialConfidence(author.status, evidenceCount > 0, evidenceCount)
    IN
    /\ nextRumorID \in DOMAIN rumors
    /\ IF err = ""
       THEN /\ rumors' = [rumors EXCEPT ![nextRumorID] =
                   [EmptyRumor EXCEPT !.rumorID = nextRumorID,
                                      !.authorID = author.studentID,
                                      !.authorWallet = wallet,
                                      !.evidenceCount = evidenceCount,
                                      !.hasEvidence = evidenceCount > 0,
                                      !.initialConfidence = initialConfidence,
                                      !.currentConfidence = initialConfidence,
                                      !.visible = TRUE,
                                      !.createdAt = now]]
            /\ nextRumorID' = nextRumorID + 1
            /\ students' = incrementPostCount(students, wallet)
       ELSE UNCHANGED <<rumors, nextRumorID, students>>
    /\ UNCHANGED <<now, keeperVars, emailHMACUsed, nextStudentID, tombstones, votingVars,
                   verificationVars, correlations>>

\* the requires of lockRumor without the one on the lock duration
lockRumorErrorNoWindow(rumorID) ==
    IF getRumor(rumorID).rumorID = 0 THEN "Rumor does not exist"
    ELSE IF getRumor(rumorID).status # "ACTIVE" THEN "Rumor not active"
    ELSE ""

lockRumorError(rumorID) ==
    IF getRumor(rumorID).rumorID = 0 THEN "Rumor does not exist"
    ELSE IF getRumor(rumorID).status # "ACTIVE" THEN "Rumor not active"
    ELSE IF ~(now >= getRumor(rumorID).createdAt + LOCK_DURATION)
         THEN "Lock duration not reached"
    ELSE ""

\* lockRumor on the rumor record, its requires passed
lockRumor(rumor) ==
    [rumor EXCEPT !.status = "LOCKED",
                  !.lockedConfidence = rumor.currentConfidence,
                  !.lockedAt = now,
                  !.visible = FALSE]

LockRumor(rumorID) ==
    LET err == lockRumorError(rumorID) IN
    /\ IF err = ""
       THEN rumors' = [rumors EXCEPT ![rumorID] = lockRumor(@)]
       ELSE UNCHANGED rumors
    /\ UNCHANGED <<now, keeperVars, identityVars, tombstones, nextRumorID, votingVars,
                   verificationVars, correlations>>

\* deleteRumor without the require on LOCKED
deleteRumorErrorAllowLocked(wallet, rumorID) ==
    IF getRumor(rumorID).rumorID = 0 THEN "Rumor does not exist"
    ELSE IF getRumor(rumorID).authorWallet # wallet THEN "Only author can delete"
    ELSE ""

deleteRumorError(wallet, rumorID) ==
    IF getRumor(rumorID).rumorID = 0 THEN "Rumor does not exist"
    ELSE IF getRumor(rumorID).authorWallet # wallet THEN "Only author can delete"
    ELSE IF getRumor(rumorID).status = "LOCKED" THEN "Cannot delete locked rumor"
    ELSE ""

DeleteRumor(wallet, rumorID) ==
    LET err == deleteRumorError(wallet, rumorID)
        rumor == getRumor(rumorID)
    IN
    /\ IF err = ""
       THEN /\ tombstones' = [tombstones EXCEPT ![rumorID] =
                   [originalRumorID |-> rumorID,
                    finalConfidence |-> rumor.currentConfidence,
                    voteCount |-> rumor.totalConfirmVotes + rumor.totalDisputeVotes,
                    deletedAt |-> now,
                    deletedBy |-> rumor.authorID,
                    trustRedistributed |-> FALSE]]
            /\ rumors' = [rumors EXCEPT ![rumorID] =
                             [@ EXCEPT !.status = "DELETED", !.visible = FALSE]]
       ELSE UNCHANGED <<tombstones, rumors>>
    /\ UNCHANGED <<now, keeperVars, identityVars, nextRumorID, votingVars, verificationVars,
                   correlations>>

\* setVerificationResult on the rumor record, its require passed
setVerificationResult(rumor, isTrue) ==
    [rumor EXCEPT !.status = IF isTrue THEN "VERIFIED" ELSE "DEBUNKED",
                  !.lockedConfidence = rumor.currentConfidence,
                  !.lockedAt = now]

\* setVerificationResult called by the owner
SetVerificationResult(rumorID, isTrue) ==
    LET err == IF getRumor(rumorID).rumorID = 0 THEN "Rumor does not exist" ELSE "" IN
    /\ IF err = ""
       THEN rumors' = [rumors EXCEPT ![rumorID] = setVerificationResult(@, isTrue)]
       ELSE UNCHANGED rumors
    /\ UNCHANGED <<now, keeperVars, identityVars, tombstones, nextRumorID, votingVars,
                   verificationVars, correlations>>

\* RumorRegistry.applyCorrelationBoost and addTrustBonus on the rumor record
addToConfidence(rumor, amount) ==
    [rumor EXCEPT !.currentConfidence = clamp(@ + amount)]

\* addTrustBonus called by the owner
AddTrustBonus(rumorID, bonus) ==
    LET err == recordVoteError(rumorID) IN
    /\ IF err = ""
       THEN rumors' = [rumors EXCEPT ![rumorID] = addToConfidence(@, bonus)]
       ELSE UNCHANGED rumors
    /\ UNCHANGED <<now, keeperVars, identityVars, tombstones, nextRumorID, votingVars,
                   verificationVars, correlations>>

\* recordVote called by the owner
RecordVote(rumorID, isConfirm, weight) ==
    LET err == recordVoteError(rumorID) IN
    /\ getRumor(rumorID).totalConfirmVotes + getRumor(rumorID).totalDisputeVotes < MaxDirect
    /\ IF err = ""
       THEN rumors' = [rumors EXCEPT ![rumorID] = recordVote(@, isConfirm, weight)]
       ELSE UNCHANGED rumors
    /\ UNCHANGED <<now, keeperVars, identityVars, tombstones, nextRumorID, votingVars,
                   verificationVars, correlations>>

(* ---------------------------- VotingSystem ----------------------------- *)
\* votesByRumor[rumorID]: the vote ids of the rumor, in the order they were pushed
getVotesForRumor(allVotes, rumorID) ==
    SelectSeq([i \in 1 .. Len(allVotes) |-> i], LAMBDA i : allVotes[i].rumorID = rumorID)

\* _checkVoteRateLimit with <= in the place of <
checkVoteRateLimitLoose(voter) ==
    LET student == students[voter]
        currentHour == now \div HOUR
        votesThisHour == IF student.lastVoteHour < currentHour THEN 0
                         ELSE student.votesThisHour
    IN  votesThisHour <= MAX_VOTES_PER_HOUR

checkVoteRateLimit(voter) ==
    LET student == students[voter]
        currentHour == now \div HOUR
        votesThisHour == IF student.lastVoteHour < currentHour THEN 0
                         ELSE student.votesThisHour
    IN  votesThisHour < MAX_VOTES_PER_HOUR

\* voteOnRumor without require(!hasVoted[rumorID][msg.sender])
voteOnRumorErrorNoDuplicate(wallet, rumorID) ==
    IF students[wallet].studentID = 0 THEN "Voter not registered"
    ELSE IF students[wallet].status = "BLOCKED" THEN "Voter is blocked"
    ELSE IF getRumor(rumorID).rumorID = 0 THEN "Rumor does not exist"
    ELSE IF getRumor(rumorID).status # "ACTIVE" THEN "Rumor not active"
    ELSE IF getRumor(rumorID).authorWallet = wallet THEN "Cannot vote on own rumor"
    ELSE IF ~checkVoteRateLimit(wallet) THEN "Vote rate limit exceeded"
    ELSE IF ~(getVotingWeight(wallet) > 0) THEN "No voting power"
    ELSE ""

\* voteOnRumor without require(rumor.authorWallet != msg.sender)
voteOnRumorErrorNoSelf(wallet, rumorID) ==
    IF students[wallet].studentID = 0 THEN "Voter not registered"
    ELSE IF students[wallet].status = "BLOCKED" THEN "Voter is blocked"
    ELSE IF getRumor(rumorID).rumorID = 0 THEN "Rumor does not exist"
    ELSE IF getRumor(rumorID).status # "ACTIVE" THEN "Rumor not active"
    ELSE IF <<rumorID, wallet>> \in hasVoted THEN "Already voted on this rumor"
    ELSE IF ~checkVoteRateLimit(wallet) THEN "Vote rate limit exceeded"
    ELSE IF ~(getVotingWeight(wallet) > 0) THEN "No voting power"
    ELSE ""

\* the first require of voteOnRumor that fails, "" when none does
voteOnRumorError(wallet, rumorID) ==
    IF students[wallet].studentID = 0 THEN "Voter not registered"
    ELSE IF students[wallet].status = "BLOCKED" THEN "Voter is blocked"
    ELSE IF getRumor(rumorID).rumorID = 0 THEN "Rumor does not exist"
    ELSE IF getRumor(rumorID).status # "ACTIVE" THEN "Rumor not active"
    ELSE IF <<rumorID, wallet>> \in hasVoted THEN "Already voted on this rumor"
    ELSE IF getRumor(rumorID).authorWallet = wallet THEN "Cannot vote on own rumor"
    ELSE IF ~checkVoteRateLimit(wallet) THEN "Vote rate limit exceeded"
    ELSE IF ~(getVotingWeight(wallet) > 0) THEN "No voting power"
    ELSE ""

VoteOnRumor(wallet, rumorID, voteType) ==
    LET err == voteOnRumorError(wallet, rumorID)
        voter == students[wallet]
        weight == getVotingWeight(wallet)
        weightedVote == SDiv(weight, 100)
    IN
    /\ IF err = ""
       THEN /\ votes' = Append(votes,
                   [voteID |-> Len(votes) + 1, rumorID |-> rumorID,
                    voterID |-> voter.studentID, voterWallet |-> wallet,
                    voteType |-> voteType, voterWeight |-> weight,
                    voterCredibility |-> voter.credibilityScore, timestamp |-> now])
            /\ hasVoted' = hasVoted \cup {<<rumorID, wallet>>}
            /\ rumors' = [rumors EXCEPT ![rumorID] =
                             recordVote(@, voteType = "CONFIRM", weightedVote)]
            /\ students' = incrementVoteCount(students, wallet)
       ELSE UNCHANGED <<votes, hasVoted, rumors, students>>
    /\ UNCHANGED <<now, keeperVars, emailHMACUsed, nextStudentID, tombstones, nextRumorID,
                   verificationVars, correlations>>

\* VotingSystem.votesByRumor[rumorID]: the vote ids pushed for the rumor, in order
votesByRumor(rumorID) ==
    SelectSeq([i \in 1 .. Len(votes) |-> i], LAMBDA id : votes[id].rumorID = rumorID)

RECURSIVE getVoteAnalyticsLoop(_, _)
\* the loops of getVoteCounts and getVoteAnalytics over the vote ids of a rumor
getVoteAnalyticsLoop(rumorVotes, acc) ==
    IF rumorVotes = <<>> THEN acc
    ELSE LET v == votes[Head(rumorVotes)] IN
         getVoteAnalyticsLoop(Tail(rumorVotes),
             IF v.voteType = "CONFIRM"
             THEN [acc EXCEPT !.confirmCount = @ + 1,
                              !.weightedConfirm = @ + v.voterWeight]
             ELSE [acc EXCEPT !.disputeCount = @ + 1,
                              !.weightedDispute = @ + v.voterWeight])

getVoteCounts(rumorID) ==
    LET acc == getVoteAnalyticsLoop(votesByRumor(rumorID),
                   [confirmCount |-> 0, disputeCount |-> 0,
                    weightedConfirm |-> 0, weightedDispute |-> 0])
    IN  <<acc.confirmCount, acc.disputeCount>>

getVoteAnalytics(rumorID) ==
    LET acc == getVoteAnalyticsLoop(votesByRumor(rumorID),
                   [confirmCount |-> 0, disputeCount |-> 0,
                    weightedConfirm |-> 0, weightedDispute |-> 0])
    IN  <<Len(votesByRumor(rumorID)), acc.weightedConfirm, acc.weightedDispute>>

(* ----------------------- VerificationController ------------------------ *)
RECURSIVE rewardVotersFlat(_, _, _, _)
\* the loop over the votes with one point for every vote, CONFIRM or DISPUTE
rewardVotersFlat(studs, allVotes, voteIDs, isTrue) ==
    IF voteIDs = <<>> THEN studs
    ELSE LET vote == allVotes[Head(voteIDs)]
             votedConfirm == vote.voteType = "CONFIRM"
             votedCorrectly == (isTrue /\ votedConfirm) \/ (~isTrue /\ ~votedConfirm)
             next == IF votedCorrectly
                     THEN addCredibility(studs, vote.voterWallet, VOTER_REWARD_CORRECT)
                     ELSE removeCredibility(studs, vote.voterWallet,
                                            VOTER_PENALTY_WRONG_CONFIRM)
         IN  rewardVotersFlat(next, allVotes, Tail(voteIDs), isTrue)

RECURSIVE rewardVoters(_, _, _, _)
\* the loop over the votes of the rumor: addCredibility / removeCredibility per vote
rewardVoters(studs, allVotes, voteIDs, isTrue) ==
    IF voteIDs = <<>> THEN studs
    ELSE LET vote == allVotes[Head(voteIDs)]
             votedConfirm == vote.voteType = "CONFIRM"
             votedCorrectly == (isTrue /\ votedConfirm) \/ (~isTrue /\ ~votedConfirm)
             next == IF votedCorrectly
                     THEN addCredibility(studs, vote.voterWallet,
                              IF votedConfirm THEN VOTER_REWARD_CORRECT
                              ELSE VOTER_REWARD_CORRECT_DISPUTE)
                     ELSE removeCredibility(studs, vote.voterWallet,
                              IF votedConfirm THEN VOTER_PENALTY_WRONG_CONFIRM
                              ELSE VOTER_PENALTY_WRONG_DISPUTE)
         IN  rewardVoters(next, allVotes, Tail(voteIDs), isTrue)

\* the author's reward or penalty
rewardAuthor(studs, authorWallet, isTrue) ==
    IF isTrue THEN addCredibility(studs, authorWallet, AUTHOR_REWARD_TRUE)
    ELSE removeCredibility(studs, authorWallet, AUTHOR_PENALTY_FALSE)

\* the body shared by verifyRumor and _verifyRumorInternal once the rumor is known to
\* exist, on st = [rumors, students, verified, result]
verifyEffects(st, rumorID, isTrue) ==
    LET rumor == st.rumors[rumorID] IN
    [rumors |-> [st.rumors EXCEPT ![rumorID] = setVerificationResult(@, isTrue)],
     students |-> rewardVoters(rewardAuthor(st.students, rumor.authorWallet, isTrue),
                               votes, getVotesForRumor(votes, rumorID), isTrue),
     verified |-> st.verified \cup {rumorID},
     result |-> [st.result EXCEPT ![rumorID] = isTrue]]

verificationState ==
    [rumors |-> rumors, students |-> students, verified |-> verifiedRumors,
     result |-> verificationResult]

verifyRumorError(rumorID) ==
    IF rumorID \in verifiedRumors THEN "Rumor already verified"
    ELSE IF getRumor(rumorID).rumorID = 0 THEN "Rumor does not exist"
    ELSE ""

\* verifyRumor, called by the owner
VerifyRumor(rumorID, isTrue) ==
    LET err == verifyRumorError(rumorID)
        st == verifyEffects(verificationState, rumorID, isTrue)
    IN
    /\ IF err = ""
       THEN /\ rumors' = st.rumors
            /\ students' = st.students
            /\ verifiedRumors' = st.verified
            /\ verificationResult' = st.result
       ELSE UNCHANGED <<rumors, students, verifiedRumors, verificationResult>>
    /\ UNCHANGED <<now, keeperVars, emailHMACUsed, nextStudentID, tombstones, nextRumorID,
                   votingVars, correlations>>

\* _verifyRumorInternal: returns without effect when the rumor does not exist
verifyRumorInternal(st, rumorID, isTrue) ==
    IF rumorID \notin DOMAIN st.rumors \/ st.rumors[rumorID].rumorID = 0 THEN st
    ELSE verifyEffects(st, rumorID, isTrue)

RECURSIVE batchVerifyNoSkip(_, _, _)
\* the loop of batchVerify without the test of verifiedRumors
batchVerifyNoSkip(st, rumorIDs, results) ==
    IF rumorIDs = <<>> THEN st
    ELSE batchVerifyNoSkip(verifyRumorInternal(st, Head(rumorIDs), Head(results)),
                           Tail(rumorIDs), Tail(results))

RECURSIVE batchVerify(_, _, _)
\* the loop of batchVerify: entries already verified are skipped
batchVerify(st, rumorIDs, results) ==
    IF rumorIDs = <<>> THEN st
    ELSE batchVerify(IF Head(rumorIDs) \notin st.verified
                     THEN verifyRumorInternal(st, Head(rumorIDs), Head(results))
                     ELSE st,
                     Tail(rumorIDs), Tail(results))

\* batchVerify, called by the owner
BatchVerify(rumorIDs, results) ==
    LET err == IF Len(rumorIDs) # Len(results) THEN "Array lengths must match" ELSE ""
        st == batchVerify(verificationState, rumorIDs, results)
    IN
    /\ IF err = ""
       THEN /\ rumors' = st.rumors
            /\ students' = st.students
            /\ verifiedRumors' = st.verified
            /\ verificationResult' = st.result
       ELSE UNCHANGED <<rumors, students, verifiedRumors, verificationResult>>
    /\ UNCHANGED <<now, keeperVars, emailHMACUsed, nextStudentID, tombstones, nextRumorID,
                   votingVars, correlations>>

RECURSIVE verifyVoterTotals(_, _, _, _)
\* the totals verifyRumor accumulates in its loop over the votes, starting from
\* `totals` = <<totalRewards, totalPenalties>>
verifyVoterTotals(totals, allVotes, voteIDs, isTrue) ==
    IF voteIDs = <<>> THEN totals
    ELSE LET vote == allVotes[Head(voteIDs)]
             votedConfirm == vote.voteType = "CONFIRM"
             votedCorrectly == (isTrue /\ votedConfirm) \/ (~isTrue /\ ~votedConfirm)
             reward == IF votedConfirm THEN VOTER_REWARD_CORRECT
                       ELSE VOTER_REWARD_CORRECT_DISPUTE
             penalty == IF votedConfirm THEN VOTER_PENALTY_WRONG_CONFIRM
                        ELSE VOTER_PENALTY_WRONG_DISPUTE
             next == IF votedCorrectly THEN <<totals[1] + reward, totals[2]>>
                     ELSE <<totals[1], totals[2] + penalty>>
         IN  verifyVoterTotals(next, allVotes, Tail(voteIDs), isTrue)

\* <<totalRewards, totalPenalties>> of the RumorVerificationCompleted event that
\* verifyRumor emits
verifyRumorTotals(rumorID, isTrue) ==
    verifyVoterTotals(IF isTrue THEN <<AUTHOR_REWARD_TRUE, 0>>
                      ELSE <<0, AUTHOR_PENALTY_FALSE>>,
                      votes, getVotesForRumor(votes, rumorID), isTrue)

RECURSIVE previewVoters(_, _, _, _, _)
\* the loop of previewVerification over the votes
previewVoters(totalRewards, totalPenalties, allVotes, voteIDs, isTrue) ==
    IF voteIDs = <<>> THEN <<totalRewards, totalPenalties>>
    ELSE LET vote == allVotes[Head(voteIDs)]
             votedConfirm == vote.voteType = "CONFIRM"
             votedCorrectly == (isTrue /\ votedConfirm) \/ (~isTrue /\ ~votedConfirm)
         IN  IF votedCorrectly
             THEN previewVoters(totalRewards + (IF votedConfirm THEN VOTER_REWARD_CORRECT
                                                ELSE VOTER_REWARD_CORRECT_DISPUTE),
                                totalPenalties, allVotes, Tail(voteIDs), isTrue)
             ELSE previewVoters(totalRewards,
                                totalPenalties + (IF votedConfirm
                                                  THEN VOTER_PENALTY_WRONG_CONFIRM
                                                  ELSE VOTER_PENALTY_WRONG_DISPUTE),
                                allVotes, Tail(voteIDs), isTrue)

\* previewVerification without the author's part
previewVerificationVotersOnly(rumorID, isTrue) ==
    IF getRumor(rumorID).rumorID = 0 THEN <<0, 0>>
    ELSE previewVoters(0, 0, votes, getVotesForRumor(votes, rumorID), isTrue)

\* the value <<totalRewards, totalPenalties>> previewVerification returns
previewVerification(rumorID, isTrue) ==
    IF getRumor(rumorID).rumorID = 0 THEN <<0, 0>>
    ELSE previewVoters(IF isTrue THEN AUTHOR_REWARD_TRUE ELSE 0,
                       IF isTrue THEN 0 ELSE AUTHOR_PENALTY_FALSE,
                       votes, getVotesForRumor(votes, rumorID), isTrue)

\* a call of the view function previewVerification: no storage is written
PreviewVerification(rumorID, isTrue) ==
    /\ previewVerification(rumorID, isTrue) \in Nat \X Nat
    /\ UNCHANGED vars

(* ------------------------- CorrelationManager -------------------------- *)
\* correlationExists: the keys <<rumorA, rumorB>> whose hash has been stored
correlationExists == DOMAIN correlations

\* how often the key was pushed to correlationsByRumor[rumorID]
\* (_addCorrelation pushes it once for rumorA and once for rumorB)
timesListed(key, rumorID) ==
    (IF key[1] = rumorID THEN 1 ELSE 0) + (IF key[2] = rumorID THEN 1 ELSE 0)

\* _addCorrelation without the check of the reverse hash
addCorrelationErrorNoReverse(corrs, rumorA, rumorB) ==
    LET rumorAData == getRumor(rumorA)
        rumorBData == getRumor(rumorB)
    IN  IF rumorAData.rumorID = 0 THEN "Rumor A does not exist"
        ELSE IF rumorBData.rumorID = 0 THEN "Rumor B does not exist"
        ELSE IF rumorAData.status # "ACTIVE" THEN "Rumor A not active"
        ELSE IF rumorBData.status # "ACTIVE" THEN "Rumor B not active"
        ELSE IF <<rumorA, rumorB>> \in DOMAIN corrs THEN "Correlation already exists"
        ELSE ""

\* the first require of _addCorrelation that fails against the correlations `corrs`
addCorrelationError(corrs, rumorA, rumorB) ==
    LET rumorAData == getRumor(rumorA)
        rumorBData == getRumor(rumorB)
        timeDiff == IF rumorBData.createdAt > rumorAData.createdAt
                    THEN rumorBData.createdAt - rumorAData.createdAt
                    ELSE rumorAData.createdAt - rumorBData.createdAt
    IN  IF rumorAData.rumorID = 0 THEN "Rumor A does not exist"
        ELSE IF rumorBData.rumorID = 0 THEN "Rumor B does not exist"
        ELSE IF rumorAData.status # "ACTIVE" THEN "Rumor A not active"
        ELSE IF rumorBData.status # "ACTIVE" THEN "Rumor B not active"
        ELSE IF ~(timeDiff <= CORRELATION_VALIDITY_DAYS * DAY) THEN "Rumors too far apart"
        ELSE IF <<rumorA, rumorB>> \in DOMAIN corrs THEN "Correlation already exists"
        ELSE IF <<rumorB, rumorA>> \in DOMAIN corrs THEN "Reverse correlation exists"
        ELSE ""

\* the correlations after _addCorrelation stored the pair
addCorrelation(corrs, rumorA, rumorB, relationType) ==
    [k \in DOMAIN corrs \cup {<<rumorA, rumorB>>} |->
        IF k = <<rumorA, rumorB>>
        THEN [rumorA |-> rumorA, rumorB |-> rumorB, relationshipType |-> relationType,
              active |-> TRUE, createdAt |-> now]
        ELSE corrs[k]]

RECURSIVE addCorrelationsSkipInvalid(_, _)
\* the loop of addCorrelations passing over an entry that fails instead of reverting
addCorrelationsSkipInvalid(corrs, batch) ==
    IF batch = <<>> THEN [ok |-> TRUE, err |-> "", corrs |-> corrs]
    ELSE LET e == Head(batch)
             err == addCorrelationError(corrs, e[1], e[2])
         IN  IF err # "" THEN addCorrelationsSkipInvalid(corrs, Tail(batch))
             ELSE addCorrelationsSkipInvalid(addCorrelation(corrs, e[1], e[2], e[3]),
                                             Tail(batch))

RECURSIVE addCorrelations(_, _)
\* the loop of addCorrelations over batch entries <<rumorA, rumorB, type>>:
\* [ok, err, corrs], ok = FALSE as soon as one entry reverts
addCorrelations(corrs, batch) ==
    IF batch = <<>> THEN [ok |-> TRUE, err |-> "", corrs |-> corrs]
    ELSE LET e == Head(batch)
             err == addCorrelationError(corrs, e[1], e[2])
         IN  IF err # "" THEN [ok |-> FALSE, err |-> err, corrs |-> corrs]
             ELSE addCorrelations(addCorrelation(corrs, e[1], e[2], e[3]), Tail(batch))

AddCorrelations(caller, batch, lengthsMatch) ==
    LET res == addCorrelations(correlations, batch)
        err == IF caller # "owner" THEN "Only oracle or owner"
               ELSE IF ~lengthsMatch THEN "Array lengths must match"
               ELSE res.err
    IN
    /\ IF err = "" THEN correlations' = res.corrs ELSE UNCHANGED correlations
    /\ UNCHANGED <<now, keeperVars, identityVars, rumorVars, votingVars, verificationVars>>

\* the four tallies of applyCorrelationBoost over the active correlations listed for
\* the rumor
RECURSIVE tally(_, _)
tally(keys, rumorID) ==
    IF keys = {} THEN [credible |-> 0, newUser |-> 0, discredited |-> 0, contra |-> 0]
    ELSE LET k == CHOOSE x \in keys : TRUE
             corr == correlations[k]
             rest == tally(keys \ {k}, rumorID)
             n == IF corr.active THEN timesListed(k, rumorID) ELSE 0
             relatedRumorID == IF corr.rumorA = rumorID THEN corr.rumorB ELSE corr.rumorA
             author == getStudentByID(students, getRumor(relatedRumorID).authorID)
         IN  IF corr.relationshipType = "SUPPORTIVE"
             THEN IF author.status = "CREDIBLE_USER"
                  THEN [rest EXCEPT !.credible = @ + n]
                  ELSE IF author.status = "NEW_USER"
                  THEN [rest EXCEPT !.newUser = @ + n]
                  ELSE IF author.status = "DISCREDITED"
                  THEN [rest EXCEPT !.discredited = @ + n]
                  ELSE rest
             ELSE [rest EXCEPT !.contra = @ + n]

correlationTally(rumorID) ==
    tally({k \in DOMAIN correlations : timesListed(k, rumorID) > 0}, rumorID)

\* the boost without the penalty for contradictions
boostOfNoContradictions(t) ==
    (IF t.credible >= 2 THEN 30
     ELSE IF t.credible >= 1 /\ t.newUser >= 1 THEN 15
     ELSE IF t.newUser >= 2 THEN 5
     ELSE 0)
    + (IF t.discredited >= 2 THEN -20 ELSE 0)

\* the boost applyCorrelationBoost computes from the tallies
boostOf(t) ==
    (IF t.credible >= 2 THEN 30
     ELSE IF t.credible >= 1 /\ t.newUser >= 1 THEN 15
     ELSE IF t.newUser >= 2 THEN 5
     ELSE 0)
    + (IF t.discredited >= 2 THEN -20 ELSE 0)
    + (IF t.contra >= 2 THEN -10 ELSE 0)

\* CorrelationManager.applyCorrelationBoost, callable by anyone
ApplyCorrelationBoost(rumorID) ==
    LET boost == boostOf(correlationTally(rumorID))
        err == IF boost # 0 THEN recordVoteError(rumorID) ELSE ""
        drift == getRumor(rumorID).currentConfidence - getRumor(rumorID).initialConfidence
    IN
    /\ drift < MaxDrift /\ -drift < MaxDrift
    /\ IF err = "" /\ boost # 0
       THEN rumors' = [rumors EXCEPT ![rumorID] = addToConfidence(@, boost)]
       ELSE UNCHANGED rumors
    /\ UNCHANGED <<now, keeperVars, identityVars, tombstones, nextRumorID, votingVars,
                   verificationVars, correlations>>

\* the correlations after deactivateCorrelations(rumorID)
deactivateCorrelations(corrs, rumorID) ==
    [k \in DOMAIN corrs |->
        IF timesListed(k, rumorID) > 0 THEN [corrs[k] EXCEPT !.active = FALSE]
        ELSE corrs[k]]

\* deactivateCorrelations called by the owner
DeactivateCorrelations(rumorID) ==
    /\ correlations' = deactivateCorrelations(correlations, rumorID)
    /\ UNCHANGED <<now, keeperVars, identityVars, rumorVars, votingVars, verificationVars>>

(* -------------------------- AutomationKeeper --------------------------- *)
lastCheckedRumorID == 0

RECURSIVE scanExamined(_, _, _)
\* the while loop with batchSize bounding the ids examined instead of the ids found
scanExamined(currentID, checked, found) ==
    IF ~(checked < getTotalRumors /\ checked < batchSize) THEN found
    ELSE scanExamined(IF currentID + 1 > getTotalRumors THEN 1 ELSE currentID + 1,
                      checked + 1,
                      IF isEligibleForLock(currentID) THEN Append(found, currentID)
                      ELSE found)

RECURSIVE scan(_, _, _)
\* the while loop of _findRumorsToLock: `checked` ids examined, `found` collected
scan(currentID, checked, found) ==
    IF ~(checked < getTotalRumors /\ Len(found) < batchSize) THEN found
    ELSE scan(IF currentID + 1 > getTotalRumors THEN 1 ELSE currentID + 1,
              checked + 1,
              IF isEligibleForLock(currentID) THEN Append(found, currentID) ELSE found)

findRumorsToLock ==
    scan(IF lastCheckedRumorID + 1 > getTotalRumors THEN 1 ELSE lastCheckedRumorID + 1,
         0, <<>>)

RECURSIVE sweepNoRecheck(_, _)
\* the loop without the test of isEligibleForLock: lockRumor is called for every
\* listed id and reverts the whole call when one of its requires fails
sweepNoRecheck(st, rumorIDs) ==
    IF rumorIDs = <<>> \/ ~st.ok THEN st
    ELSE LET id == Head(rumorIDs)
             rumor == IF id \in DOMAIN st.rumors THEN st.rumors[id] ELSE EmptyRumor
         IN  IF rumor.rumorID = 0 \/ rumor.status # "ACTIVE"
                \/ ~(now >= rumor.createdAt + LOCK_DURATION)
             THEN [st EXCEPT !.ok = FALSE, !.err = "Rumor not active"]
             ELSE sweepNoRecheck([st EXCEPT !.rumors[id] = lockRumor(rumor),
                                            !.corrs = deactivateCorrelations(st.corrs, id)],
                                 Tail(rumorIDs))

RECURSIVE sweep(_, _)
\* the loop of performUpkeep / triggerLocking on st = [ok, err, rumors, corrs]:
\* an id still eligible is locked and its correlations deactivated; lockRumor
\* reverts the whole call for an id that was never created
sweep(st, rumorIDs) ==
    IF rumorIDs = <<>> \/ ~st.ok THEN st
    ELSE LET id == Head(rumorIDs)
             rumor == IF id \in DOMAIN st.rumors THEN st.rumors[id] ELSE EmptyRumor
             eligible == rumor.status = "ACTIVE" /\ now >= rumor.createdAt + LOCK_DURATION
         IN  IF ~eligible THEN sweep(st, Tail(rumorIDs))
             ELSE IF rumor.rumorID = 0
             THEN [st EXCEPT !.ok = FALSE, !.err = "Rumor does not exist"]
             ELSE sweep([st EXCEPT !.rumors[id] = lockRumor(rumor),
                                   !.corrs = deactivateCorrelations(st.corrs, id)],
                        Tail(rumorIDs))

sweepState == [ok |-> TRUE, err |-> "", rumors |-> rumors, corrs |-> correlations]

PerformUpkeep(rumorIDs) ==
    LET st == sweep(sweepState, rumorIDs) IN
    /\ IF st.ok
       THEN rumors' = st.rumors /\ correlations' = st.corrs
       ELSE UNCHANGED <<rumors, correlations>>
    /\ UNCHANGED <<now, keeperVars, identityVars, tombstones, nextRumorID, votingVars,
                   verificationVars>>

TriggerLocking ==
    LET st == sweep(sweepState, findRumorsToLock) IN
    /\ IF st.ok
       THEN rumors' = st.rumors /\ correlations' = st.corrs
       ELSE UNCHANGED <<rumors, correlations>>
    /\ UNCHANGED <<now, keeperVars, identityVars, tombstones, nextRumorID, votingVars,
                   verificationVars>>

\* checkUpkeep: a view call; the automation node keeps the list it returned
CheckUpkeep ==
    /\ performData' = findRumorsToLock
    /\ UNCHANGED <<now, identityVars, rumorVars, votingVars, verificationVars,
                   correlations, batchSize>>

\* lockSpecificRumor, callable by anyone
LockSpecificRumor(rumorID) ==
    LET err == IF ~isEligibleForLock(rumorID) THEN "Rumor not eligible for locking"
               ELSE lockRumorError(rumorID)
    IN
    /\ IF err = ""
       THEN /\ rumors' = [rumors EXCEPT ![rumorID] = lockRumor(@)]
            /\ correlations' = deactivateCorrelations(correlations, rumorID)
       ELSE UNCHANGED <<rumors, correlations>>
    /\ UNCHANGED <<now, keeperVars, identityVars, tombstones, nextRumorID, votingVars,
                   verificationVars>>

\* setBatchSize, called by the owner
SetBatchSize(newBatchSize) ==
    LET err == IF ~(newBatchSize > 0 /\ newBatchSize <= 100) THEN "Invalid batch size"
               ELSE ""
    IN
    /\ IF err = "" THEN batchSize' = newBatchSize ELSE UNCHANGED batchSize
    /\ UNCHANGED <<now, identityVars, rumorVars, votingVars, verificationVars,
                   correlations, performData>>

(* ----------------------------- deployment ------------------------------ *)

Contracts ==
    {"IdentityRegistry", "RumorRegistry", "VotingSystem", "VerificationController",
     "CorrelationManager", "AutomationKeeper"}

\* every constructor is Ownable(msg.sender) and the deployer deploys every contract;
\* the deploy script transfers no ownership
ownerOf == [c \in Contracts |-> "deployer"]

\* the addAuthorizedCaller calls of the deploy script: RumorRegistry is the only
\* contract with a list of authorized callers
authorizedCallers ==
    [c \in Contracts |->
        IF c = "RumorRegistry"
        THEN {"VotingSystem", "VerificationController", "AutomationKeeper",
              "CorrelationManager"}
        ELSE {}]

\* the access modifier of the functions the contracts call on each other
modifierOf(callee, fn) ==
    IF callee = "IdentityRegistry"
       /\ fn \in {"incrementPostCount", "incrementVoteCount", "addCredibility",
                  "removeCredibility"}
    THEN "onlyOwner"
    ELSE IF callee = "CorrelationManager" /\ fn = "deactivateCorrelations"
    THEN "onlyOwner"
    ELSE IF callee = "RumorRegistry"
            /\ fn \in {"recordVote", "setVerificationResult", "applyCorrelationBoost"}
    THEN "onlyAuthorized"
    ELSE "none"

\* the state-changing calls an operation makes on other contracts, in the order of
\* the code, as <<caller, callee, function>>
crossCalls(op) ==
    IF op = "createRumor"
    THEN << <<"RumorRegistry", "IdentityRegistry", "incrementPostCount">> >>
    ELSE IF op = "voteOnRumor"
    THEN << <<"VotingSystem", "RumorRegistry", "recordVote">>,
            <<"VotingSystem", "IdentityRegistry", "incrementVoteCount">> >>
    ELSE IF op = "verifyRumor"
    THEN << <<"VerificationController", "RumorRegistry", "setVerificationResult">>,
            <<"VerificationController", "IdentityRegistry", "addCredibility">>,
            <<"VerificationController", "IdentityRegistry", "removeCredibility">> >>
    ELSE << <<"AutomationKeeper", "RumorRegistry", "lockRumor">>,
            <<"AutomationKeeper", "CorrelationManager", "deactivateCorrelations">> >>

\* the revert of the callee's modifier for msg.sender = caller, "" when it passes
accessError(call) ==
    LET caller == call[1]
        callee == call[2]
        modifier == modifierOf(callee, call[3])
    IN  IF modifier = "onlyOwner" /\ caller # ownerOf[callee]
        THEN "OwnableUnauthorizedAccount"
        ELSE IF /\ modifier = "onlyAuthorized"
                /\ caller # ownerOf[callee]
                /\ caller \notin authorizedCallers[callee]
        THEN "Not authorized"
        ELSE ""

\* the first access revert among the cross-contract calls of an operation
wiringError(op) ==
    LET failing == SelectSeq(crossCalls(op), LAMBDA call : accessError(call) # "")
    IN  IF failing = <<>> THEN "" ELSE accessError(Head(failing))

(* ------------------------------- time ---------------------------------- *)
\* a later block, d hours on, within `weeks` weeks of deployment
Tick(d, weeks) ==
    /\ now + d <= DeployTime + weeks * 7 * DAY
    /\ now' = now + d
    /\ UNCHANGED <<identityVars, rumorVars, votingVars, verificationVars, correlations,
                   keeperVars>>

\* a later block, d hours on, within `hours` hours of deployment
Advance(d, hours) ==
    /\ now + d <= DeployTime + hours
    /\ now' = now + d
    /\ UNCHANGED <<identityVars, rumorVars, votingVars, verificationVars, correlations,
                   keeperVars>>

(* -------------------------- the state machine -------------------------- *)
\* the contracts as deployed: no student, no rumor; `wallets` are the callers of
\* the behaviour and 1 .. maxRumors the rumor ids it may create
Deployed(wallets, maxRumors) ==
    /\ now = DeployTime
    /\ students = [w \in wallets |-> EmptyStudent]
    /\ emailHMACUsed = {}
    /\ nextStudentID = 1
    /\ rumors = [r \in 1 .. maxRumors |-> EmptyRumor]
    /\ tombstones = [r \in 1 .. maxRumors |-> EmptyTombstone]
    /\ nextRumorID = 1
    /\ votes = <<>>
    /\ hasVoted = {}
    /\ verifiedRumors = {}
    /\ verificationResult = [r \in 1 .. maxRumors |-> FALSE]
    /\ correlations = <<>>
    /\ batchSize = 50
    /\ performData = <<>>

\* the record registerStudent stores
newStudent(studentID, emailHMAC) ==
    [EmptyStudent EXCEPT !.studentID = studentID,
                         !.emailHMAC = emailHMAC,
                         !.credibilityScore = INITIAL_CREDIBILITY,
                         !.status = "NEW_USER",
                         !.votingPower = NEW_USER_VOTING_POWER,
                         !.registeredAt = now]

\* the deployed contracts after w1, w2, w3 registered in this order in the
\* deployment block, each with its own commitment, and the owner called
\* updateCredibility(w3, w3Score)
Registered(maxRumors, w3Score) ==
    /\ now = DeployTime
    /\ students = [w \in Wallets3 |->
                      IF w = "w1" THEN newStudent(1, "h1")
                      ELSE IF w = "w2" THEN newStudent(2, "h2")
                      ELSE updateStatus([newStudent(3, "h3") EXCEPT
                                            !.credibilityScore = w3Score])]
    /\ emailHMACUsed = {"h1", "h2", "h3"}
    /\ nextStudentID = 4
    /\ rumors = [r \in 1 .. maxRumors |-> EmptyRumor]
    /\ tombstones = [r \in 1 .. maxRumors |-> EmptyTombstone]
    /\ nextRumorID = 1
    /\ votes = <<>>
    /\ hasVoted = {}
    /\ verifiedRumors = {}
    /\ verificationResult = [r \in 1 .. maxRumors |-> FALSE]
    /\ correlations = <<>>
    /\ batchSize = 50
    /\ performData = <<>>

W == DOMAIN students
R == DOMAIN rumors

\* the commitment the identity issuer signs for the wallet
hmacOf(wallet) == IF wallet = "w1" THEN "h1" ELSE IF wallet = "w2" THEN "h2" ELSE "h3"

\* the argument lists of batchVerify: up to two <<rumorID, result>> entries
BatchInputs ==
    {<<>>} \cup {<<a>> : a \in R \X BOOLEAN}
           \cup {<<a, b>> : a \in R \X BOOLEAN, b \in R \X BOOLEAN}
firsts(batch) == [i \in 1 .. Len(batch) |-> batch[i][1]]
seconds(batch) == [i \in 1 .. Len(batch) |-> batch[i][2]]

(* Voting: registration, rumor creation, votes, locks and time, from deployment *)
Init == Deployed(Wallets, MaxRumors)

Next ==
    \/ \E w \in W : RegisterStudent(w, hmacOf(w), TRUE)
    \/ \E w \in W : UpdateCredibility(w, CREDIBILITY_THRESHOLD)
    \/ \E w \in W, e \in EvidenceCounts : CreateRumor(w, e)
    \/ \E w \in W, r \in R, t \in VoteTypes : VoteOnRumor(w, r, t)
    \/ \E r \in R : LockRumor(r)
    \/ TriggerLocking
    \/ Tick(7 * DAY, MaxWeeks)

Spec == Init /\ [][Next]_vars

(* Lifecycle: every operation that writes a rumor, from deployment *)
NextLife ==
    \/ \E w \in W : RegisterStudent(w, hmacOf(w), TRUE)
    \/ \E w \in W, e \in EvidenceCounts : CreateRumor(w, e)
    \/ \E w \in W, r \in R, t \in VoteTypes : VoteOnRumor(w, r, t)
    \/ \E r \in R, b \in BOOLEAN : RecordVote(r, b, 100)
    \/ \E r \in R : LockRumor(r)
    \/ \E w \in W, r \in R : DeleteRumor(w, r)
    \/ \E r \in R, b \in BOOLEAN : SetVerificationResult(r, b)
    \/ \E r \in R, b \in BOOLEAN : VerifyRumor(r, b)
    \/ \E b \in BatchInputs : BatchVerify(firsts(b), seconds(b))
    \/ \E r \in R, b \in {-30, 30} : AddTrustBonus(r, b)
    \/ Tick(7 * DAY, MaxWeeks)

SpecLife == Init /\ [][NextLife]_vars

(* Verification: three registered students, the third with the score 1 the owner *)
(* gave it by updateCredibility; rumors, votes and verification                  *)
InitVerify == Registered(MaxRumors, 1)

NextVerify ==
    \/ \E w \in W : CreateRumor(w, 0)
    \/ \E w \in W, r \in R, t \in VoteTypes : VoteOnRumor(w, r, t)
    \/ \E r \in R, b \in BOOLEAN : VerifyRumor(r, b)
    \/ \E b \in BatchInputs : BatchVerify(firsts(b), seconds(b))
    \/ BatchVerify(<<1>>, <<>>)
    \/ \E r \in R, b \in BOOLEAN : PreviewVerification(r, b)

SpecVerify == InitVerify /\ [][NextVerify]_vars

(* Identity: one wallet, its registration and the owner's credibility calls *)
InitIdentity == Deployed({"w1"}, MaxRumors)

NextIdentity ==
    \/ \E w \in W, h \in HMACs, sig \in BOOLEAN : RegisterStudent(w, h, sig)
    \/ \E w \in W, n \in ScoreInputs : UpdateCredibility(w, n)
    \/ \E w \in W, p \in PointInputs : AddCredibility(w, p)
    \/ \E w \in W, p \in PointInputs : RemoveCredibility(w, p)
    \/ Tick(31 * DAY, 5 * MaxMonths)

SpecIdentity == InitIdentity /\ [][NextIdentity]_vars

(* Correlation: three registered students, rumors, correlations between them, *)
(* boosts and deletion                                                        *)
RelationshipTypes == {"SUPPORTIVE", "CONTRADICTORY"}

InitCorr == Registered(MaxCorrRumors, CREDIBILITY_THRESHOLD)

NextCorr ==
    \/ \E w \in W : CreateRumor(w, 0)
    \/ \E a \in R, b \in R, t \in RelationshipTypes :
           AddCorrelations("owner", << <<a, b, t>> >>, TRUE)
    \/ \E r \in R : ApplyCorrelationBoost(r)
    \/ \E w \in W, r \in R : DeleteRumor(w, r)
    \/ \E r \in R : DeactivateCorrelations(r)

SpecCorr == InitCorr /\ [][NextCorr]_vars

(* Creation: registration, the owner's updateCredibility and createRumor with *)
(* evidence lists of several lengths                                          *)
EvidenceLengths == {0, 1, 2, MaxEvidence}

NextCreate ==
    \/ \E w \in W : RegisterStudent(w, hmacOf(w), TRUE)
    \/ \E w \in W, n \in ScoreInputs : UpdateCredibility(w, n)
    \/ \E w \in W, e \in EvidenceLengths : CreateRumor(w, e)

SpecCreate == Init /\ [][NextCreate]_vars

(* Public lifecycle: the calls open to students and the keeper, and the      *)
(* owner's verifyRumor and batchVerify                                        *)
NextPublic ==
    \/ \E w \in W : RegisterStudent(w, hmacOf(w), TRUE)
    \/ \E w \in W : CreateRumor(w, 0)
    \/ \E w \in W, r \in R, t \in VoteTypes : VoteOnRumor(w, r, t)
    \/ \E r \in R : LockRumor(r)
    \/ TriggerLocking
    \/ \E a \in R, b \in R : AddCorrelations("owner", << <<a, b, "SUPPORTIVE">> >>, TRUE)
    \/ \E r \in R : ApplyCorrelationBoost(r)
    \/ \E w \in W, r \in R : DeleteRumor(w, r)
    \/ \E r \in R, b \in BOOLEAN : VerifyRumor(r, b)
    \/ \E b \in BatchInputs : BatchVerify(firsts(b), seconds(b))
    \/ Tick(7 * DAY, MaxWeeks)

SpecPublic == Init /\ [][NextPublic]_vars

(* Registration: two wallets, two commitments, valid and invalid signatures, *)
(* and the owner's updateCredibility                                          *)
NextRegister ==
    \/ \E w \in W, h \in HMACs, sig \in BOOLEAN : RegisterStudent(w, h, sig)
    \/ \E w \in W, n \in ScoreInputs : UpdateCredibility(w, n)

SpecRegister == Init /\ [][NextRegister]_vars

(* Vote rate: the credible student w3 posts rumors, w1 votes on them in the  *)
(* order of their ids (or again on one it has voted on), hours pass           *)
InitRate == Registered(MaxVoteRumors, CREDIBILITY_THRESHOLD)

NextRate ==
    \/ CreateRumor("w3", 0)
    \/ \E r \in {x \in R : \A y \in 1 .. x - 1 : <<y, "w1">> \in hasVoted} :
           VoteOnRumor("w1", r, "CONFIRM")
    \/ Advance(HOUR, MaxHours)

SpecRate == InitRate /\ [][NextRate]_vars

(* Post rate: registration, the owner's updateCredibility, posts, days pass *)
InitPost == Deployed(Wallets, MaxPosts)

NextPost ==
    \/ \E w \in W : RegisterStudent(w, hmacOf(w), TRUE)
    \/ \E n \in {0, 1, CREDIBILITY_THRESHOLD} : UpdateCredibility("w1", n)
    \/ \E w \in W : CreateRumor(w, 0)
    \/ Advance(DAY, MaxDays * DAY)

SpecPost == InitPost /\ [][NextPost]_vars

(* Pairs: rumors of one credible author, correlations submitted in either  *)
(* order, alone and in batches, deactivation and deletion                  *)
InitPair == Registered(MaxCorrRumors, CREDIBILITY_THRESHOLD)

NextPair ==
    \/ CreateRumor("w3", 0)
    \/ \E a \in R, b \in R : AddCorrelations("owner", << <<a, b, "SUPPORTIVE">> >>, TRUE)
    \/ \E a \in R, b \in R, c \in R, d \in R :
           AddCorrelations("owner",
                           << <<a, b, "SUPPORTIVE">>, <<c, d, "SUPPORTIVE">> >>, TRUE)
    \/ \E r \in R : DeleteRumor("w3", r)
    \/ \E r \in R : DeactivateCorrelations(r)

SpecPair == InitPair /\ [][NextPair]_vars

(* Sweeps: rumors of one credible author, the owner's setBatchSize, time, and *)
(* the automation node's checkUpkeep / performUpkeep next to triggerLocking   *)
BatchSizes == {0, 1, 50}

InitSweep == Registered(MaxSweepRumors, CREDIBILITY_THRESHOLD)

NextSweep ==
    \/ CreateRumor("w3", 0)
    \/ \E n \in BatchSizes : SetBatchSize(n)
    \/ CheckUpkeep
    \/ PerformUpkeep(performData)
    \/ TriggerLocking
    \/ Tick(7 * DAY, MaxWeeks)

SpecSweep == InitSweep /\ [][NextSweep]_vars

\* the automation network keeps calling checkUpkeep and submits performUpkeep with
\* the list it got whenever that list makes a difference
FairSweep == SpecSweep /\ WF_vars(CheckUpkeep) /\ WF_vars(PerformUpkeep(performData))

(* Stale sweeps: rumors created in the first block; the automation node        *)
(* discovers a list, and votes, lockRumor, deleteRumor and verification come   *)
(* in before performUpkeep runs on it                                          *)
NextStale ==
    \/ now = DeployTime /\ CreateRumor("w3", 0)
    \/ AddCorrelations("owner", << <<1, 2, "SUPPORTIVE">> >>, TRUE)
    \/ CheckUpkeep
    \/ PerformUpkeep(performData)
    \/ \E r \in {x \in R : isEligibleForLock(x)} : VoteOnRumor("w1", r, "CONFIRM")
    \/ \E r \in R : LockRumor(r)
    \/ \E r \in R : DeleteRumor("w3", r)
    \/ VerifyRumor(1, TRUE)
    \/ Tick(7 * DAY, MaxWeeks)

SpecStale == InitPair /\ [][NextStale]_vars

(* Boosts and votes: rumors of a new user, a new and a credible voter, votes,  *)
(* a correlation of the rumor with itself and its boost, time                 *)
InitBoost == Registered(MaxRumors, CREDIBILITY_THRESHOLD)

NextBoost ==
    \/ CreateRumor("w1", 0)
    \/ \E w \in {"w2", "w3"}, r \in R, t \in VoteTypes : VoteOnRumor(w, r, t)
    \/ \E r \in R : AddCorrelations("owner", << <<r, r, "SUPPORTIVE">> >>, TRUE)
    \/ \E r \in R : ApplyCorrelationBoost(r)
    \/ Tick(7 * DAY, MaxWeeks)

SpecBoost == InitBoost /\ [][NextBoost]_vars

(* Locking: one credible author, time passes by three and by four days, and   *)
(* every path that locks: lockRumor, lockSpecificRumor, the sweeps and a vote *)
InitLock == Registered(MaxRumors, CREDIBILITY_THRESHOLD)

NextLock ==
    \/ CreateRumor("w3", 0)
    \/ \E r \in R, t \in VoteTypes : VoteOnRumor("w1", r, t)
    \/ \E r \in R : LockRumor(r)
    \/ \E r \in R : LockSpecificRumor(r)
    \/ TriggerLocking
    \/ CheckUpkeep
    \/ PerformUpkeep(performData)
    \/ \E r \in R : DeleteRumor("w3", r)
    \/ \E d \in {3 * DAY, 4 * DAY} : Tick(d, MaxWeeks)

SpecLock == InitLock /\ [][NextLock]_vars

(* Tally: rumor 1 of the new user w1, further rumors of w2 whose status the    *)
(* owner changes, correlations of rumor 1 (with itself too), deactivation and *)
(* the boost of rumor 1                                                        *)
InitTally == Registered(MaxTallyRumors, CREDIBILITY_THRESHOLD)

NextTally ==
    \/ CreateRumor(IF nextRumorID = 1 THEN "w1" ELSE "w2", 0)
    \/ \E n \in {0, 1, CREDIBILITY_THRESHOLD} : UpdateCredibility("w2", n)
    \/ \E b \in R, t \in RelationshipTypes : AddCorrelations("owner", << <<1, b, t>> >>, TRUE)
    \/ DeactivateCorrelations(2)
    \/ ApplyCorrelationBoost(1)

SpecTally == InitTally /\ [][NextTally]_vars

(* Batches: rumors of one credible author created a week apart or together,  *)
(* deletion, and batches of one pair or of a pair of rumor 1 and a pair of    *)
(* rumor 2, with matching or mismatched array lengths                         *)
PairBatches ==
    {<< <<a, b, "SUPPORTIVE">> >> : a \in R, b \in R}
    \cup {<< <<1, b, "SUPPORTIVE">>, <<2, d, "SUPPORTIVE">> >> : b \in R, d \in R}

NextBatch ==
    \/ CreateRumor("w3", 0)
    \/ \E batch \in PairBatches : AddCorrelations("owner", batch, TRUE)
    \/ AddCorrelations("owner", << <<1, 1, "SUPPORTIVE">> >>, FALSE)
    \/ DeleteRumor("w3", 1)
    \/ Tick(7 * DAY, MaxWeeks)

SpecBatch == InitPair /\ [][NextBatch]_vars


(* Discredit: three registered students, the third credible at the threshold; the
   owner adjusts its score while time moves in steps of 15 and 16 days *)
InitDiscredit == Registered(MaxRumors, CREDIBILITY_THRESHOLD)

NextDiscredit ==
    \/ \E n \in ScoreInputs : UpdateCredibility("w3", n)
    \/ \E p \in PointInputs : AddCredibility("w3", p)
    \/ \E p \in PointInputs : RemoveCredibility("w3", p)
    \/ \E d \in {15 * DAY, 16 * DAY} : Tick(d, 5 * MaxMonths)

SpecDiscredit == InitDiscredit /\ [][NextDiscredit]_vars


(* Status: every operation that writes a rumor's status; the third student is the
   author, the first votes
   at the deadline and is a stranger to deleteRumor *)
NextStatus ==
    \/ CreateRumor("w3", 0)
    \/ \E r \in {x \in R : isEligibleForLock(x)}, t \in VoteTypes : VoteOnRumor("w1", r, t)
    \/ \E r \in R : LockRumor(r)
    \/ \E r \in R : LockSpecificRumor(r)
    \/ TriggerLocking
    \/ \E w \in {"w1", "w3"}, r \in R : DeleteRumor(w, r)
    \/ \E r \in R, b \in BOOLEAN : SetVerificationResult(r, b)
    \/ \E b \in BOOLEAN : VerifyRumor(1, b)
    \/ Tick(7 * DAY, MaxWeeks)

SpecStatus == InitLock /\ [][NextStatus]_vars

(* ------------------------------ properties ----------------------------- *)

\* C1: a rumor holds at most one Vote per voter: no two votes share the rumor and
\* the voter's wallet, and a wallet that has a vote on a rumor is refused by
\* voteOnRumor on that rumor, so the call changes nothing.
C1_OneVotePerVoter ==
    /\ \A i, j \in 1 .. Len(votes) :
          (votes[i].rumorID = votes[j].rumorID /\ votes[i].voterWallet = votes[j].voterWallet)
              => i = j
    /\ \A i \in 1 .. Len(votes) :
          /\ <<votes[i].rumorID, votes[i].voterWallet>> \in hasVoted
          /\ voteOnRumorError(votes[i].voterWallet, votes[i].rumorID) # ""

\* a voter with a vote on a rumor that is still open, whose second vote is refused
\* as a duplicate
C1_SecondVoteRefused ==
    \E i \in 1 .. Len(votes) :
        voteOnRumorError(votes[i].voterWallet, votes[i].rumorID)
            = "Already voted on this rumor"

\* C2: the currentConfidence of every rumor is within [-100, 100] in every state,
\* from its creation on, whatever the number of evidence files.
C2_ConfidenceInRange ==
    \A r \in R :
        /\ rumors[r].currentConfidence >= MIN_CONFIDENCE
        /\ rumors[r].currentConfidence <= MAX_CONFIDENCE

\* C3: VERIFIED and DEBUNKED are terminal: no step changes the status or the
\* currentConfidence of a rumor that is VERIFIED or DEBUNKED.
C3_TerminalFrozen ==
    [][\A r \in R :
          rumors[r].status \in {"VERIFIED", "DEBUNKED"}
              => /\ rumors'[r].status = rumors[r].status
                 /\ rumors'[r].currentConfidence = rumors[r].currentConfidence]_vars

\* C4: every correlation that references a DELETED rumor is inactive, so that no
\* correlation boost counts a DELETED rumor.
C4_DeletedRumorUncorrelated ==
    \A k \in DOMAIN correlations :
        (getRumor(k[1]).status = "DELETED" \/ getRumor(k[2]).status = "DELETED")
            => ~correlations[k].active

\* C5: a registered student whose credibilityScore is 0 is BLOCKED and has voting
\* weight 0; the score is never negative, and removeCredibility with at least the
\* current score in points leaves the score 0 and the student BLOCKED.
C5_ZeroScoreBlocked ==
    \A w \in W :
        students[w].studentID # 0 =>
            /\ students[w].credibilityScore >= 0
            /\ students[w].credibilityScore = 0
                   => students[w].status = "BLOCKED" /\ getVotingWeight(w) = 0
            /\ \A p \in PointInputs \cup {students[w].credibilityScore} :
                   p >= students[w].credibilityScore
                       => LET after == removeCredibility(students, w, p)[w] IN
                          after.credibilityScore = 0 /\ after.status = "BLOCKED"

\* a registered student brought to score 0 with a removeCredibility counted
C5_RemovedToZero ==
    \E w \in W :
        /\ students[w].studentID # 0
        /\ students[w].credibilityScore = 0
        /\ students[w].inaccuratePredictions > 0
        /\ students[w].status = "BLOCKED"

\* C6: verification is applied at most once per rumor: in every step the verified
\* set only grows, a rumor already verified keeps every field and its result, each
\* student's prediction counters grow by exactly one per rumor newly verified that
\* the student authored or voted on, and no score changes unless a rumor is newly
\* verified.
C6_VerifiedOnce ==
    [][LET counted(studs, w) ==
               studs[w].accuratePredictions + studs[w].inaccuratePredictions
           owed(newly, w) ==
               Cardinality({r \in newly : rumors[r].authorWallet = w})
               + Cardinality({i \in 1 .. Len(votes) :
                                 votes[i].voterWallet = w /\ votes[i].rumorID \in newly})
       IN  /\ verifiedRumors \subseteq verifiedRumors'
           /\ \A r \in verifiedRumors :
                 rumors'[r] = rumors[r] /\ verificationResult'[r] = verificationResult[r]
           /\ \A w \in W :
                 counted(students', w) - counted(students, w)
                     = owed(verifiedRumors' \ verifiedRumors, w)
           /\ verifiedRumors' = verifiedRumors
                  => \A w \in W :
                        students'[w].credibilityScore = students[w].credibilityScore]_vars

\* a verified rumor with a vote, on which verifyRumor is refused
C6_VerifiedWithVotes ==
    \E r \in verifiedRumors :
        /\ verifyRumorError(r) = "Rumor already verified"
        /\ \E i \in 1 .. Len(votes) : votes[i].rumorID = r

C8_NoSelfVote ==
    \A i \in 1 .. Len(votes) :
        votes[i].voterWallet # getRumor(votes[i].rumorID).authorWallet

\* an open rumor that has a vote and whose author is refused as a voter
C8_AuthorRefused ==
    \E r \in R :
        /\ rumors[r].rumorID # 0
        /\ rumors[r].totalConfirmVotes + rumors[r].totalDisputeVotes > 0
        /\ voteOnRumorError(rumors[r].authorWallet, r) = "Cannot vote on own rumor"

\* C9: a LOCKED rumor still takes votes, at 5%: a registered, unblocked wallet with
\* voting power that is not the author, has not voted on the rumor and is within
\* the rate limit is accepted by voteOnRumor on a LOCKED rumor.
C9_LockedRumorTakesVotes ==
    \A r \in R, w \in W :
        (/\ rumors[r].status = "LOCKED"
         /\ students[w].studentID # 0
         /\ students[w].status # "BLOCKED"
         /\ <<r, w>> \notin hasVoted
         /\ rumors[r].authorWallet # w
         /\ checkVoteRateLimit(w)
         /\ getVotingWeight(w) > 0)
            => voteOnRumorError(w, r) = ""

\* C10: once now >= createdAt + 7 days, no step that records a vote changes the
\* rumor's currentConfidence, its weighted sums or its vote counts.
C10_NoVoteEffectAfterWindow ==
    [][\A r \in R :
          (/\ rumors[r].rumorID # 0
           /\ now >= rumors[r].createdAt + LOCK_DURATION
           /\ Len(votes') > Len(votes))
              => /\ rumors'[r].currentConfidence = rumors[r].currentConfidence
                 /\ rumors'[r].weightedConfirmScore = rumors[r].weightedConfirmScore
                 /\ rumors'[r].weightedDisputeScore = rumors[r].weightedDisputeScore
                 /\ rumors'[r].totalConfirmVotes = rumors[r].totalConfirmVotes
                 /\ rumors'[r].totalDisputeVotes = rumors[r].totalDisputeVotes]_vars

\* C11: a rumor becomes VERIFIED or DEBUNKED only from LOCKED, hence only once
\* now >= createdAt + 7 days.
C11_VerifiedOnlyFromLocked ==
    [][\A r \in R :
          (/\ rumors'[r].status \in {"VERIFIED", "DEBUNKED"}
           /\ rumors[r].status \notin {"VERIFIED", "DEBUNKED"})
              => /\ rumors[r].status = "LOCKED"
                 /\ now >= rumors[r].createdAt + LOCK_DURATION]_vars

\* C12: the outcome of verifying a rumor is fixed by the state the call starts in
\* (the recorded votes and the confidence): verifyRumor(r, true) and
\* verifyRumor(r, false), both accepted in that state, leave the rumor in the same
\* status.
C12_OutcomeFixedByVotes ==
    \A r \in R :
        verifyRumorError(r) = ""
            => verifyEffects(verificationState, r, TRUE).rumors[r].status
                   = verifyEffects(verificationState, r, FALSE).rumors[r].status

C14_InitialNeverPositive ==
    \A r \in R : rumors[r].initialConfidence <= 0

\* C15: the lockedConfidence of every rumor is within [-100, 100], whether
\* lockRumor, a vote at or after the deadline or setVerificationResult froze it.
C15_LockedConfidenceInRange ==
    \A r \in R :
        /\ rumors[r].lockedConfidence >= MIN_CONFIDENCE
        /\ rumors[r].lockedConfidence <= MAX_CONFIDENCE

\* C16: one credential, one identity: after every step no two registered wallets
\* share an emailHMAC or a studentID; a registered wallet keeps its studentID and
\* its emailHMAC (a further registerStudent changes nothing); a wallet becomes
\* registered only with a commitment not consumed before, a studentID no wallet
\* has, credibilityScore 10, status NEW_USER and votingPower 2500.
C16_OneCredentialOneIdentity ==
    [][/\ \A a, b \in W :
             (a # b /\ students'[a].studentID # 0 /\ students'[b].studentID # 0)
                 => /\ students'[a].emailHMAC # students'[b].emailHMAC
                    /\ students'[a].studentID # students'[b].studentID
       /\ \A w \in W :
             students[w].studentID # 0
                 => /\ students'[w].studentID = students[w].studentID
                    /\ students'[w].emailHMAC = students[w].emailHMAC
       /\ \A w \in W :
             (students[w].studentID = 0 /\ students'[w].studentID # 0)
                 => /\ students'[w].emailHMAC \notin emailHMACUsed
                    /\ students'[w].emailHMAC \in emailHMACUsed'
                    /\ \A o \in W : students[o].studentID # students'[w].studentID
                    /\ students'[w].credibilityScore = 10
                    /\ students'[w].status = "NEW_USER"
                    /\ students'[w].votingPower = 2500
       /\ emailHMACUsed \subseteq emailHMACUsed']_vars

\* a registered wallet, and an unregistered one that is refused the commitment
\* the first has consumed
C16_CommitmentRefused ==
    \E a, b \in W :
        /\ students[a].studentID # 0
        /\ students[b].studentID = 0
        /\ registerStudentError(b, students[a].emailHMAC, TRUE) = "Email already registered"
        /\ registerStudentError(a, "h2", TRUE) = "Wallet already registered"

\* C17: a tombstone is written once: no step changes any field of a tombstone that
\* deleteRumor has written.
C17_TombstoneImmutable ==
    [][\A r \in R :
          tombstones[r].originalRumorID # 0 => tombstones'[r] = tombstones[r]]_vars

\* C18: a deleted rumor does not change: no step changes the status, the visible
\* flag, the currentConfidence or the lockedConfidence of a DELETED rumor.
C18_DeletedFrozen ==
    [][\A r \in R :
          rumors[r].status = "DELETED"
              => /\ rumors'[r].status = "DELETED"
                 /\ rumors'[r].visible = rumors[r].visible
                 /\ rumors'[r].currentConfidence = rumors[r].currentConfidence
                 /\ rumors'[r].lockedConfidence = rumors[r].lockedConfidence]_vars

\* C19: vote rate limit: no wallet has more than 10 votes recorded in one clock
\* hour; the rate check passes exactly when the wallet has fewer than 10 votes in
\* the current hour (so it passes again in a later hour), and with 10 votes in the
\* current hour voteOnRumor refuses the wallet on every rumor.
C19_VoteRateLimit ==
    \A w \in W :
        LET votesInHour(h) ==
                Cardinality({i \in 1 .. Len(votes) :
                                /\ votes[i].voterWallet = w
                                /\ votes[i].timestamp \div HOUR = h})
        IN  /\ \A h \in (DeployTime \div HOUR) .. (now \div HOUR) : votesInHour(h) <= 10
            /\ checkVoteRateLimit(w) <=> votesInHour(now \div HOUR) < 10
            /\ votesInHour(now \div HOUR) >= 10
                   => \A r \in R : voteOnRumorError(w, r) # ""

\* ten votes of one wallet in one hour, the wallet refused by the rate limit on a
\* rumor it has not voted on
C19_EleventhRefused ==
    \E r \in R :
        /\ Len(votes) = 10
        /\ votes[1].timestamp \div HOUR = votes[10].timestamp \div HOUR
        /\ voteOnRumorError("w1", r) = "Vote rate limit exceeded"

C21_CrediblePowerByScore ==
    \A w \in W :
        students[w].status = "CREDIBLE_USER" =>
            students[w].votingPower =
                IF students[w].credibilityScore >= 70 THEN 15000
                ELSE IF students[w].credibilityScore >= 50 THEN 12000
                ELSE CREDIBLE_USER_VOTING_POWER

\* C22: at most one Correlation is stored for an unordered pair of rumors, in
\* whichever order the pair is submitted; a stored Correlation keeps its rumors,
\* type and creation time, and its active flag only goes from true to false: a
\* deactivated pair is never reactivated and never added again.
C22_OneCorrelationPerPair ==
    [][/\ \A k \in DOMAIN correlations' :
             k[1] # k[2] => <<k[2], k[1]>> \notin DOMAIN correlations'
       /\ \A k \in DOMAIN correlations :
             /\ k \in DOMAIN correlations'
             /\ [correlations'[k] EXCEPT !.active = TRUE]
                    = [correlations[k] EXCEPT !.active = TRUE]
             /\ correlations'[k].active => correlations[k].active]_vars

\* a deactivated correlation between two rumors that are still ACTIVE, so that
\* adding the pair again in either order is attempted and refused
C22_DeactivatedPairRefused ==
    \E k \in DOMAIN correlations :
        /\ k[1] # k[2]
        /\ ~correlations[k].active
        /\ addCorrelationError(correlations, k[1], k[2]) = "Correlation already exists"
        /\ addCorrelationError(correlations, k[2], k[1]) = "Reverse correlation exists"

C26_LockedRumorUncorrelated ==
    \A r \in R, k \in DOMAIN correlations :
        (getRumor(r).status = "LOCKED" /\ timesListed(k, r) > 0)
            => ~correlations[k].active

\* C27: BLOCKED is permanent: once a wallet's status is BLOCKED no operation
\* changes the status (credibility added later, as a verification does for votes
\* cast before the block, included), and its voting weight stays 0.
C27_BlockedIsPermanent ==
    [][\A w \in W :
          students[w].status = "BLOCKED" =>
              /\ students'[w].status = "BLOCKED"
              /\ getVotingWeight(w)' = 0]_vars

\* C28: a vote recomputes the confidence from the votes alone: after every
\* accepted vote that leaves the rumor ACTIVE the vote has added
\* getVotingWeight(voter) / 100 to the score of its side, and currentConfidence is
\* initialConfidence + weightedConfirmScore - weightedDisputeScore clamped to
\* [-100, 100], so a correlation boost (or trust bonus) applied before the vote
\* is no longer in it.
C28_VoteRecomputesConfidence ==
    [][\A r \in R :
          (/\ Len(votes') = Len(votes) + 1
           /\ votes'[Len(votes')].rumorID = r
           /\ rumors'[r].status = "ACTIVE") =>
              LET vote == votes'[Len(votes')]
                  weightedVote == SDiv(getVotingWeight(vote.voterWallet), 100)
              IN  /\ vote.voterWeight = getVotingWeight(vote.voterWallet)
                  /\ rumors'[r].initialConfidence = rumors[r].initialConfidence
                  /\ rumors'[r].weightedConfirmScore = rumors[r].weightedConfirmScore
                         + (IF vote.voteType = "CONFIRM" THEN weightedVote ELSE 0)
                  /\ rumors'[r].weightedDisputeScore = rumors[r].weightedDisputeScore
                         + (IF vote.voteType = "DISPUTE" THEN weightedVote ELSE 0)
                  /\ rumors'[r].currentConfidence =
                         clamp(rumors'[r].initialConfidence
                               + rumors'[r].weightedConfirmScore
                               - rumors'[r].weightedDisputeScore)]_vars

\* a CONFIRM vote of weight 10000 and one of weight 2500 on a new user's rumor:
\* -20 + 100 + 25 is clamped to 100 and the rumor is still ACTIVE
C28_ConfirmsBeyondRange ==
    \E r \in R :
        /\ getRumor(r).status = "ACTIVE"
        /\ getRumor(r).initialConfidence = -20
        /\ getRumor(r).totalConfirmVotes = 2
        /\ getRumor(r).weightedConfirmScore = 125
        /\ getRumor(r).currentConfidence = MAX_CONFIDENCE

\* C29: every lock freezes the raw confidence: whenever a rumor goes from ACTIVE to
\* LOCKED, by lockRumor, by a sweep or by a vote at or after the deadline, its
\* lockedConfidence is initialConfidence + weightedConfirmScore -
\* weightedDisputeScore of the vote totals it then has, also when a correlation
\* boost was applied or the raw value lies outside [-100, 100].
C29_LockFreezesRawConfidence ==
    [][\A r \in R :
          (rumors[r].status = "ACTIVE" /\ rumors'[r].status = "LOCKED") =>
              rumors'[r].lockedConfidence =
                  rumors'[r].initialConfidence + rumors'[r].weightedConfirmScore
                      - rumors'[r].weightedDisputeScore]_vars

\* C30: no rumor is locked before its voting window has elapsed: a LOCKED rumor
\* has lockedAt >= createdAt + 7 days; a rumor becomes LOCKED only from ACTIVE, at
\* a time at or after createdAt + 7 days, which is then its lockedAt; and lockRumor
\* or lockSpecificRumor on a rumor that is not ACTIVE or whose window has not
\* elapsed is refused and changes nothing, so a LOCKED rumor stays as it was
\* locked.
C30_NoLockBeforeWindow ==
    [][\A r \in R :
          /\ rumors'[r].status = "LOCKED" =>
                 rumors'[r].lockedAt >= rumors'[r].createdAt + LOCK_DURATION
          /\ (rumors[r].status # "LOCKED" /\ rumors'[r].status = "LOCKED") =>
                 /\ rumors[r].status = "ACTIVE"
                 /\ now >= rumors[r].createdAt + LOCK_DURATION
                 /\ rumors'[r].lockedAt = now
          /\ (lockRumorError(r) # "" /\ (LockRumor(r) \/ LockSpecificRumor(r))) =>
                 UNCHANGED vars
          /\ rumors[r].status = "LOCKED" =>
                 /\ rumors'[r].status = "LOCKED"
                 /\ rumors'[r].lockedAt = rumors[r].lockedAt]_vars

\* a rumor locked exactly seven days after its creation, on which a further
\* lockRumor is refused
C30_LockedAtDeadline ==
    \E r \in R :
        /\ getRumor(r).status = "LOCKED"
        /\ getRumor(r).lockedAt = getRumor(r).createdAt + LOCK_DURATION
        /\ lockRumorError(r) = "Rumor not active"
        /\ ~isEligibleForLock(r)

\* the entries of correlationsByRumor[r] that are active, of the given type, and
\* whose counterpart rumor has an author of one of the given statuses
C31_Entries(r, type, statuses) ==
    {e \in (DOMAIN correlations) \X {1, 2} :
        /\ e[1][e[2]] = r
        /\ correlations[e[1]].active
        /\ correlations[e[1]].relationshipType = type
        /\ LET other == IF e[1][1] = r THEN e[1][2] ELSE e[1][1]
           IN  getStudentByID(students, getRumor(other).authorID).status \in statuses}

\* P + D + C of the claim for rumor r
C31_NetBoost(r) ==
    LET credibleSupport == Cardinality(C31_Entries(r, "SUPPORTIVE", {"CREDIBLE_USER"}))
        newUserSupport == Cardinality(C31_Entries(r, "SUPPORTIVE", {"NEW_USER"}))
        discreditedSupport == Cardinality(C31_Entries(r, "SUPPORTIVE", {"DISCREDITED"}))
        contradictions == Cardinality(C31_Entries(r, "CONTRADICTORY",
                              {"NONE", "NEW_USER", "CREDIBLE_USER", "DISCREDITED", "BLOCKED"}))
    IN  (IF credibleSupport >= 2 THEN 30
         ELSE IF credibleSupport >= 1 /\ newUserSupport >= 1 THEN 15
         ELSE IF newUserSupport >= 2 THEN 5 ELSE 0)
        + (IF discreditedSupport >= 2 THEN -20 ELSE 0)
        + (IF contradictions >= 2 THEN -10 ELSE 0)

C32_Valid(a, b, before) ==
    /\ getRumor(a).rumorID # 0 /\ getRumor(b).rumorID # 0
    /\ getRumor(a).status = "ACTIVE" /\ getRumor(b).status = "ACTIVE"
    /\ getRumor(a).createdAt - getRumor(b).createdAt <= CORRELATION_VALIDITY_DAYS * DAY
    /\ getRumor(b).createdAt - getRumor(a).createdAt <= CORRELATION_VALIDITY_DAYS * DAY
    /\ {<<a, b>>, <<b, a>>} \cap (DOMAIN correlations \cup before) = {}

\* C32: addCorrelations is all-or-nothing: a batch either stores every one of its
\* pairs, and then the array lengths match and every pair has two existing ACTIVE
\* rumors created at most 5 days apart and is no duplicate of a stored pair or of
\* an earlier pair of the batch in either order, or it stores nothing at all.
C32_BatchAllOrNothing ==
    [][correlations' # correlations =>
          \A batch \in PairBatches, lengthsMatch \in BOOLEAN :
              AddCorrelations("owner", batch, lengthsMatch) =>
                  LET pairs == {<<batch[i][1], batch[i][2]>> : i \in 1 .. Len(batch)}
                      allValid ==
                          \A i \in 1 .. Len(batch) :
                              C32_Valid(batch[i][1], batch[i][2],
                                        {<<batch[j][1], batch[j][2]>> : j \in 1 .. i - 1})
                  IN  /\ lengthsMatch /\ allValid
                      /\ DOMAIN correlations' = DOMAIN correlations \cup pairs
                      /\ \A k \in DOMAIN correlations : correlations'[k] = correlations[k]
                      /\ \A k \in pairs : correlations'[k].active]_vars

\* a correlation is stored, and a batch whose first pair is acceptable and whose
\* second pair joins rumors created more than 5 days apart is refused as a whole
C32_BatchRefusedForLatePair ==
    /\ correlations # <<>>
    /\ \E b \in R, d \in R :
           /\ addCorrelationError(correlations, 1, b) = ""
           /\ addCorrelations(correlations,
                  << <<1, b, "SUPPORTIVE">>, <<2, d, "SUPPORTIVE">> >>).err
                  = "Rumors too far apart"


\* the ids of the RumorsLocked event a sweep over rumorIDs emits: the whole list it
\* walked, when that list is not empty and the call did not revert
RumorsLocked(rumorIDs) ==
    IF sweep(sweepState, rumorIDs).ok THEN {rumorIDs[i] : i \in 1 .. Len(rumorIDs)} ELSE {}

\* the rumors a step moves from ACTIVE to LOCKED
C33_LockedByStep ==
    {r \in DOMAIN rumors : rumors[r].status = "ACTIVE" /\ rumors'[r].status = "LOCKED"}

\* C33: the ids listed in the RumorsLocked event of performUpkeep are exactly the
\* rumors whose status that call changed from ACTIVE to LOCKED, also when the list
\* holds stale ids
C33_EventListsLockedRumors ==
    [][PerformUpkeep(performData) => RumorsLocked(performData) = C33_LockedByStep]_vars

\* C33 (triggerLocking): the ids listed in the RumorsLocked event of triggerLocking
\* are exactly the rumors that call locked
C33_TriggerEventListsLockedRumors ==
    [][TriggerLocking => RumorsLocked(findRumorsToLock) = C33_LockedByStep]_vars


\* C34: for every rumor the counters kept by recordVote agree with the values
\* recomputed from the stored Vote records: the counts with getVoteCounts, their sum
\* with the number of records, and 100 times the scores with getVoteAnalytics
C34_SumsAgreeWithRecords ==
    \A r \in DOMAIN rumors :
        /\ <<rumors[r].totalConfirmVotes, rumors[r].totalDisputeVotes>> = getVoteCounts(r)
        /\ rumors[r].totalConfirmVotes + rumors[r].totalDisputeVotes = getVoteAnalytics(r)[1]
        /\ 100 * rumors[r].weightedConfirmScore = getVoteAnalytics(r)[2]
        /\ 100 * rumors[r].weightedDisputeScore = getVoteAnalytics(r)[3]


\* C35: the discredit period is served: while block time is at most discreditedUntil
\* the identity is not CREDIBLE_USER, getVotingWeight returns at most 5000 and the
\* period is not shortened, whatever the score becomes; a discredited identity
\* becomes CREDIBLE_USER only in a step taken after discreditedUntil that leaves
\* its score at 30 or more
C35_DiscreditPeriodServed ==
    [][\A w \in W :
          LET s == students[w]
              t == students'[w]
          IN  /\ (s.discreditedUntil # 0 /\ now' <= s.discreditedUntil) =>
                     /\ t.status # "CREDIBLE_USER"
                     /\ getVotingWeight(w)' <= DISCREDITED_VOTING_POWER
                     /\ t.discreditedUntil >= s.discreditedUntil
              /\ (s.discreditedUntil # 0 /\ t.status = "CREDIBLE_USER") =>
                     /\ s.status = "DISCREDITED"
                     /\ now > s.discreditedUntil
                     /\ t.credibilityScore >= CREDIBILITY_THRESHOLD]_vars

\* a discredited student whose score is back at the threshold, at the last moment
\* of its period
C35_RewardedAtDeadline ==
    /\ students["w3"].status = "DISCREDITED"
    /\ students["w3"].credibilityScore >= CREDIBILITY_THRESHOLD
    /\ now = students["w3"].discreditedUntil
    /\ getVotingWeight("w3") = DISCREDITED_VOTING_POWER


\* C36: no operation moves a created rumor back to ACTIVE; a LOCKED rumor stays LOCKED
\* or becomes VERIFIED or DEBUNKED, never DELETED; a deleteRumor call that changes
\* anything is the author's, on a rumor that is not LOCKED
C36_NoWayBackFromLocked ==
    [][\A r \in R :
          LET old == rumors[r]
              new == rumors'[r]
          IN  /\ (old.rumorID # 0 /\ old.status # "ACTIVE") => new.status # "ACTIVE"
              /\ old.status = "LOCKED" => new.status \in {"LOCKED", "VERIFIED", "DEBUNKED"}
              /\ \A w \in W :
                     (DeleteRumor(w, r) /\ <<rumors', tombstones'>> # <<rumors, tombstones>>) =>
                         /\ w = old.authorWallet
                         /\ old.status # "LOCKED"
                         /\ new.status = "DELETED"
              /\ (old.status # "DELETED" /\ new.status = "DELETED") =>
                     DeleteRumor(old.authorWallet, r)]_vars

\* a LOCKED rumor whose author is refused by deleteRumor
C36_AuthorRefusedOnLocked ==
    \E r \in R :
        /\ rumors[r].status = "LOCKED"
        /\ deleteRumorError(rumors[r].authorWallet, r) = "Cannot delete locked rumor"


\* C37: applying the correlation boost again right after it was applied, with nothing
\* else changed, leaves currentConfidence as the first application left it
C37_BoostIdempotent ==
    [][\A r \in R :
          (ApplyCorrelationBoost(r) /\ rumors' # rumors) =>
              addToConfidence(rumors'[r], boostOf(correlationTally(r)')).currentConfidence
                  = rumors'[r].currentConfidence]_vars


\* C38: every stored correlation joins two distinct rumors, is listed at most once
\* for any rumor, and its two rumors have different authors, so that no rumor counts
\* itself or its own author as evidence
C38_CorrelationJoinsDistinctRumors ==
    \A k \in DOMAIN correlations :
        /\ correlations[k].rumorA # correlations[k].rumorB
        /\ \A r \in R : timesListed(k, r) <= 1
        /\ getRumor(correlations[k].rumorA).authorID # getRumor(correlations[k].rumorB).authorID


\* C39: the stored votingPower of every registered student fits its status:
\* NEW_USER 2500, DISCREDITED 5000, BLOCKED 0, CREDIBLE_USER 10000, 12000 or 15000
C39_PowerFitsStatus ==
    \A w \in W :
        LET s == students[w] IN
        s.studentID # 0 =>
            /\ s.status \in {"NEW_USER", "DISCREDITED", "BLOCKED", "CREDIBLE_USER"}
            /\ s.status = "NEW_USER" => s.votingPower = NEW_USER_VOTING_POWER
            /\ s.status = "DISCREDITED" => s.votingPower = DISCREDITED_VOTING_POWER
            /\ s.status = "BLOCKED" => s.votingPower = 0
            /\ s.status = "CREDIBLE_USER" => s.votingPower \in {10000, 12000, 15000}

\* a student blocked at score 0 whose score was raised to the threshold again
C39_BlockedWithRestoredScore ==
    \E w \in W :
        /\ students[w].status = "BLOCKED"
        /\ students[w].credibilityScore >= CREDIBILITY_THRESHOLD
        /\ students[w].votingPower = 0


\* C40: with the owners and authorized callers the deploy script sets up, an
\* operation whose own requires pass also passes the access check of every call it
\* makes on another contract: createRumor, voteOnRumor, verifyRumor, and a sweep of
\* performUpkeep or triggerLocking that finds a rumor to lock
C40_WiredCallsPass ==
    /\ (\E w \in W : createRumorError(w) = "") => wiringError("createRumor") = ""
    /\ (\E w \in W, r \in R : voteOnRumorError(w, r) = "") => wiringError("voteOnRumor") = ""
    /\ (\E r \in R : verifyRumorError(r) = "") => wiringError("verifyRumor") = ""
    /\ findRumorsToLock # <<>> => wiringError("performUpkeep") = ""

====
